---------------------------- MODULE Spec2Model ----------------------------
(***************************************************************************)
(* Calcium-imaging signal processing: the adaptive event detector          *)
(* (SignalProcessor.robust_event_detection and its two detector copies),   *)
(* the event-bounds extraction, the per-stimulus metric extractor and the  *)
(* Butterworth wrapper of src/utils/signal_processing.py.                  *)
(*                                                                         *)
(* Arrays are functions over 0..N-1, so every index is the source's index. *)
(* Samples are integers.  The rolling buffer, the baseline and the         *)
(* variability are exact reals, kept as scaled integers:                   *)
(*   - the influence is the fraction a/D; after e steps of the main pass   *)
(*     every buffer value is stored multiplied by D^e (the blend           *)
(*     a/D*x + (1-a/D)*last then needs no division);                       *)
(*   - "base2" is twice the median and "mad4" four times the median        *)
(*     absolute deviation (the mean of the two middle values of an even    *)
(*     window needs no division);                                          *)
(*   - scaled values are three-limb integers <<h, m, l>> standing for      *)
(*     h*LimbBase^2 + m*LimbBase + l with 0 <= m, l < LimbBase.            *)
(***************************************************************************)
EXTENDS Integers, Sequences, FiniteSets, TLC

VARIABLES original_signal, time, smoothed_signal, event_mask,
          op, args, ret, raised, locals, session_state

vars == <<original_signal, time, smoothed_signal, event_mask,
          op, args, ret, raised, locals, session_state>>

---------------------------------------------------------------------------
(* Bounds of the model *)
MaxN == 5
MaxVal == 2
MaxW == 2
MaxK2 == 2
InflDen == 2
MaxRun == 1
MaxAdj == 1
MaxLow == 4
MaxHigh == 3
MaxTail == 2
MaxT == 3
MaxTime == 3
MaxSig == 1
MaxRate == 6
MaxCut == 3
MaxOrder == 1
MaxWindow == 3
MaxPoly == 2
MaxProcN == 2
TicksPerMinute == 2
MaxRoi == 2
MaxStim == 2
MaxTableN == 3
MaxStageN == 3
MaxFftN == 5
MaxFftRate == 3
MaxMergeN == 9
MaxMergeRun == 6
MaxPostN == 8
MaxGapN == 7
MaxPostAdj == 2

(* The values of the event mask *)
UP == 1
DOWN == -1
NONE == 0

(* Python's None, and a value that is not None *)
None == [some |-> FALSE]
Some(v) == [some |-> TRUE, val |-> v]

(* st.session_state with no key set: data_loaded is set to False at the    *)
(* start of main when it is missing, and the other keys are absent.        *)
NoSession ==
    [data_loaded |-> FALSE, data_loader |-> None, processed_signals |-> None,
     results_df |-> None, last_config |-> None]

---------------------------------------------------------------------------
(* Exact arithmetic on scaled values *)
LimbBase == 10 * 10000

Norm(h, m, l) ==
    LET m1 == m + (l \div LimbBase)
    IN  <<h + (m1 \div LimbBase), m1 % LimbBase, l % LimbBase>>

BigOf(n) == Norm(0, 0, n)
BZero == <<0, 0, 0>>
BAdd(a, b) == Norm(a[1] + b[1], a[2] + b[2], a[3] + b[3])
BSub(a, b) == Norm(a[1] - b[1], a[2] - b[2], a[3] - b[3])
BNeg(a) == Norm(-a[1], -a[2], -a[3])
BMul(a, n) == Norm(a[1] * n, a[2] * n, a[3] * n)
BLess(a, b) ==
    \/ a[1] < b[1]
    \/ a[1] = b[1] /\ a[2] < b[2]
    \/ a[1] = b[1] /\ a[2] = b[2] /\ a[3] < b[3]
BLeq(a, b) == a = b \/ BLess(a, b)
BAbs(a) == IF a[1] < 0 THEN BNeg(a) ELSE a

Min2(a, b) == IF a < b THEN a ELSE b
Max2(a, b) == IF a > b THEN a ELSE b

(* len(a) of an array a over 0..N-1 *)
ALen(a) == Cardinality(DOMAIN a)

(* a[i] = v, in place *)
Upd(a, i, v) == (i :> v) @@ a

(* np.zeros(N) *)
Zeros(N) == [i \in 0..(N - 1) |-> 0]

(* The indices a[start:stop] selects in an array of length N (numpy: a      *)
(* negative bound counts from the end, and both bounds are clipped).        *)
SliceLo(N, v) == IF v < 0 THEN Max2(v + N, 0) ELSE Min2(v, N)
SliceIdx(N, start, stop) ==
    {j \in 0..(N - 1) : SliceLo(N, start) <= j /\ j < SliceLo(N, stop)}

(* Twice np.nanmedian(s): the middle value of the sorted sequence twice,   *)
(* or the sum of its two middle values when its length is even.            *)
Median2(s) ==
    LET n == Len(s)
        sorted == SortSeq(s, BLess)
    IN  BAdd(sorted[(n + 1) \div 2], sorted[(n \div 2) + 1])

(* 4 * np.nanmedian(np.abs(x_filtered - baseline)), base2 = 2 * baseline *)
Mad4(buf, base2) ==
    LET dev == [j \in 1..Len(buf) |-> BAbs(BSub(BMul(buf[j], 2), base2))]
    IN  Median2(SubSeq(dev, 1, Len(buf)))

---------------------------------------------------------------------------
(* The detector: _detect_events_with_params / _detect_events_with_baseline *)

(* Program constants of the detector *)
InitSigmaNum == 10000
InitSigmaDen == 6745
RunSigmaNum == 14826
RunSigmaDen == 10000
PuntosPrevios == 5
AdjDefault == 5

(* A real n / (2 * u) and a real n / (4 * d * u), u the scale D^e *)
RealZero == [n |-> BZero, u |-> BigOf(1)]
SigmaZero == [n |-> BZero, d |-> 1, u |-> BigOf(1)]
RealIsZero(v) == v.n = BZero

(* The state before the loop: the buffer x[:w], its median and its MAD     *)
(* scaled by 1/0.6745.                                                      *)
MainInit(x, p) ==
    LET N == ALen(x)
        buf == [j \in 1..p.w |-> BigOf(x[j - 1])]
        base2 == Median2(buf)
        mad4 == Mad4(buf, base2)
        b0 == [n |-> base2, u |-> BigOf(1)]
        s0 == [n |-> BMul(mad4, InitSigmaNum), d |-> InitSigmaDen, u |-> BigOf(1)]
    IN  [mask |-> Zeros(N), buf |-> buf, unit |-> BigOf(1),
         base2 |-> base2, mad4 |-> mad4, cn |-> InitSigmaNum, cd |-> InitSigmaDen,
         baseline |-> [i \in 0..(N - 1) |-> IF i < p.w THEN b0 ELSE RealZero],
         std |-> [i \in 0..(N - 1) |-> IF i < p.w THEN s0 ELSE SigmaZero]]

(* difference > k * std_dev, for k = k[1] / k[2] *)
AboveThreshold(diff2, k, st) ==
    BLess(BMul(BMul(st.mad4, k[1]), st.cn), BMul(BMul(diff2, 2 * k[2]), st.cd))

(* difference < -k * std_dev *)
BelowThreshold(diff2, k, st) ==
    BLess(BMul(BMul(diff2, 2 * k[2]), st.cd), BNeg(BMul(BMul(st.mad4, k[1]), st.cn)))

(* The if / elif / else with ">=" and "<=" where the source has ">", "<" *)
ClassifyNonStrict(diff2, prev, k_up, k_down, st) ==
    IF \/ /\ BLeq(BMul(BMul(st.mad4, k_up[1]), st.cn),
                  BMul(BMul(diff2, 2 * k_up[2]), st.cd))
          /\ BLeq(BZero, diff2)
       \/ BLeq(BZero, diff2) /\ prev = UP
    THEN UP
    ELSE IF \/ /\ BLeq(BMul(BMul(diff2, 2 * k_down[2]), st.cd),
                       BNeg(BMul(BMul(st.mad4, k_down[1]), st.cn)))
               /\ BLeq(diff2, BZero)
            \/ BLeq(diff2, BZero) /\ prev = DOWN
         THEN DOWN
         ELSE NONE

(* The thresholds alone, without the label of the sample before *)
ClassifyThresholdOnly(diff2, prev, k_up, k_down, st) ==
    IF AboveThreshold(diff2, k_up, st) /\ BLess(BZero, diff2)
    THEN UP
    ELSE IF BelowThreshold(diff2, k_down, st) /\ BLess(diff2, BZero)
         THEN DOWN
         ELSE NONE

(* The label of sample i: the if / elif / else of the main pass *)
Classify(diff2, prev, k_up, k_down, st) ==
    IF \/ AboveThreshold(diff2, k_up, st) /\ BLess(BZero, diff2)
       \/ BLess(BZero, diff2) /\ prev = UP
    THEN UP
    ELSE IF \/ BelowThreshold(diff2, k_down, st) /\ BLess(diff2, BZero)
            \/ BLess(diff2, BZero) /\ prev = DOWN
         THEN DOWN
         ELSE NONE

(* The sample itself appended, event or not *)
AppendedRaw(label, X, last, infl) == BMul(X, infl[2])

(* The two weights exchanged *)
AppendedSwapped(label, X, last, infl) ==
    IF label = NONE
    THEN BMul(X, infl[2])
    ELSE BAdd(BMul(last, infl[1]), BMul(X, infl[2] - infl[1]))

(* The value appended to the buffer, at the scale of the next step:        *)
(* influence * x[i] + (1 - influence) * x_filtered[-1] for an event,       *)
(* x[i] otherwise.  X is x[i] and last is x_filtered[-1] at this scale.    *)
Appended(label, X, last, infl) ==
    IF label = NONE
    THEN BMul(X, infl[2])
    ELSE BAdd(BMul(X, infl[1]), BMul(last, infl[2] - infl[1]))

(* np.sum(event_mask[start:stop] == v) *)
CountIn(mask, start, stop, v) ==
    Cardinality({j \in SliceIdx(ALen(mask), start, stop) : mask[j] = v})

(* event_mask[start:stop] = v *)
FillIn(mask, start, stop, v) ==
    [j \in DOMAIN mask |->
        IF j \in SliceIdx(ALen(mask), start, stop) THEN v ELSE mask[j]]

(* The run-merge that counts all run_min samples before sample i and      *)
(* merges from 80% of them                                                  *)
RunMergeWholeRun(mask, i, w, run_min) ==
    IF i > w + run_min
    THEN IF mask[i] = UP /\ 10 * CountIn(mask, i - run_min, i, UP) >= 8 * run_min
         THEN FillIn(mask, i - run_min, i, UP)
         ELSE IF /\ mask[i] = DOWN
                 /\ 10 * CountIn(mask, i - run_min, i, DOWN) >= 8 * run_min
              THEN FillIn(mask, i - run_min, i, DOWN)
              ELSE mask
    ELSE mask

(* "Unir eventos cercanos": the run-merge after sample i is labelled *)
RunMerge(mask, i, w, run_min) ==
    IF i > w + run_min
    THEN IF mask[i] = UP /\ 10 * CountIn(mask, i - run_min, i - 1, UP) > 8 * run_min
         THEN FillIn(mask, i - run_min, i, UP)
         ELSE IF /\ mask[i] = DOWN
                 /\ 10 * CountIn(mask, i - run_min, i - 1, DOWN) > 8 * run_min
              THEN FillIn(mask, i - run_min, i, DOWN)
              ELSE mask
    ELSE mask

(* One iteration of "for i in range(w, N)" *)
MainStep(x, p, k_up, k_down, st, i) ==
    LET X == BMul(st.unit, x[i])
        diff2 == BSub(BMul(X, 2), st.base2)
        label == Classify(diff2, st.mask[i - 1], k_up, k_down, st)
        D == p.influence[2]
        new == Appended(label, X, st.buf[Len(st.buf)], p.influence)
        grown == [j \in 1..Len(st.buf) |-> BMul(st.buf[j], D)] \o <<new>>
        buf == SubSeq(grown, Len(grown) - p.w + 1, Len(grown))
        unit == BMul(st.unit, D)
        base2 == Median2(buf)
        mad4 == Mad4(buf, base2)
        labelled == Upd(st.mask, i, label)
    IN  [mask |-> RunMerge(labelled, i, p.w, p.run_min),
         buf |-> buf, unit |-> unit, base2 |-> base2, mad4 |-> mad4,
         cn |-> RunSigmaNum, cd |-> RunSigmaDen,
         baseline |-> Upd(st.baseline, i, [n |-> base2, u |-> unit]),
         std |-> Upd(st.std, i,
                     [n |-> BMul(mad4, RunSigmaNum), d |-> RunSigmaDen, u |-> unit])]

RECURSIVE MainLoop(_, _, _, _, _, _)
MainLoop(x, p, k_up, k_down, st, i) ==
    IF i >= ALen(st.mask)
    THEN st
    ELSE MainLoop(x, p, k_up, k_down, MainStep(x, p, k_up, k_down, st, i), i + 1)

(* The main pass: the state after "for i in range(w, N)" *)
MainPass(x, p, k_up, k_down) == MainLoop(x, p, k_up, k_down, MainInit(x, p), p.w)

(* The rule without its count of the previous samples *)
RefineAtNoCount(x, mask, i) ==
    IF mask[i] = UP THEN UP ELSE IF mask[i] = DOWN THEN DOWN ELSE mask[i - 1]

(* The refinement rule with "<" and ">" where the source has "<=", ">=" *)
RefineAtStrict(x, mask, i) ==
    IF /\ mask[i] = UP
       /\ 10 * Cardinality({j \in SliceIdx(ALen(x), i - PuntosPrevios, i) : x[j] < x[i]})
              >= 8 * PuntosPrevios
    THEN UP
    ELSE IF /\ mask[i] = DOWN
            /\ 10 * Cardinality({j \in SliceIdx(ALen(x), i - PuntosPrevios, i) : x[j] > x[i]})
                   >= 8 * PuntosPrevios
         THEN DOWN
         ELSE mask[i - 1]

(* The label of sample i copied to sample i-1 whenever the count holds,    *)
(* whatever that label is                                                   *)
RefineAtCopyLabel(x, mask, i) ==
    IF \/ 10 * Cardinality({j \in SliceIdx(ALen(x), i - PuntosPrevios, i) : x[j] <= x[i]})
              >= 8 * PuntosPrevios
       \/ 10 * Cardinality({j \in SliceIdx(ALen(x), i - PuntosPrevios, i) : x[j] >= x[i]})
              >= 8 * PuntosPrevios
    THEN mask[i]
    ELSE mask[i - 1]

(* The refinement rule at index i: the label forced on sample i-1, or the  *)
(* label it has.                                                            *)
RefineAt(x, mask, i) ==
    LET N == ALen(x)
        prev == SliceIdx(N, i - PuntosPrevios, i)
        le == Cardinality({j \in prev : x[j] <= x[i]})
        ge == Cardinality({j \in prev : x[j] >= x[i]})
    IN  IF mask[i] = UP /\ 10 * le >= 8 * PuntosPrevios
        THEN UP
        ELSE IF mask[i] = DOWN /\ 10 * ge >= 8 * PuntosPrevios
             THEN DOWN
             ELSE mask[i - 1]

(* One full pass "for i in range(1, len(event_mask) - 1)", in place *)
RECURSIVE RefinePass(_, _, _)
RefinePass(x, mask, i) ==
    IF i >= ALen(mask) - 1
    THEN mask
    ELSE RefinePass(x, Upd(mask, i - 1, RefineAt(x, mask, i)), i + 1)

(* The flag with "cambios = True" wherever a rule matches, without the     *)
(* test that the label differs                                              *)
CambiosOnEveryMatch(x, mask) ==
    \E i \in 1..(ALen(mask) - 2) :
        \/ /\ mask[i] = UP
           /\ 10 * Cardinality({j \in SliceIdx(ALen(x), i - PuntosPrevios, i) : x[j] <= x[i]})
                  >= 8 * PuntosPrevios
        \/ /\ mask[i] = DOWN
           /\ 10 * Cardinality({j \in SliceIdx(ALen(x), i - PuntosPrevios, i) : x[j] >= x[i]})
                  >= 8 * PuntosPrevios

(* "cambios" after one pass from mask: TRUE when the pass wrote a label    *)
(* that differs from the one the sample had (each sample is written at     *)
(* most once in a pass).                                                    *)
Cambios(x, mask) == RefinePass(x, mask, 1) # mask

(* "while cambios": passes until one changes nothing.  The loop has no cap *)
(* in the source; fuel counts the passes left before the model gives up    *)
(* and reports converged = FALSE.                                           *)
RECURSIVE RefineLoop(_, _, _, _)
RefineLoop(x, mask, fuel, passes) ==
    LET next == RefinePass(x, mask, 1)
    IN  IF next = mask
        THEN [mask |-> mask, converged |-> TRUE, passes |-> passes + 1]
        ELSE IF fuel = 0
             THEN [mask |-> next, converged |-> FALSE, passes |-> passes + 1]
             ELSE RefineLoop(x, next, fuel - 1, passes + 1)

(* np.any(event_mask[start:stop] == v) *)
AnyIn(mask, start, stop, v) ==
    \E j \in SliceIdx(ALen(mask), start, stop) : mask[j] = v

(* "Llenar huecos" at index i *)
GapAt(mask, i, pre, post) ==
    IF mask[i] = NONE /\ AnyIn(mask, i - pre, i, UP) /\ AnyIn(mask, i + 1, i + 1 + post, UP)
    THEN UP
    ELSE IF /\ mask[i] = NONE
            /\ AnyIn(mask, i - pre, i, DOWN)
            /\ AnyIn(mask, i + 1, i + 1 + post, DOWN)
         THEN DOWN
         ELSE mask[i]

(* The loop up to the last index with a full window after it *)
RECURSIVE GapFillToLastWindow(_, _, _, _)
GapFillToLastWindow(mask, i, pre, post) ==
    IF i >= ALen(mask) - post
    THEN mask
    ELSE GapFillToLastWindow(Upd(mask, i, GapAt(mask, i, pre, post)), i + 1, pre, post)

(* "for i in range(pre, len(event_mask) - post - 1)", in place *)
RECURSIVE GapFill(_, _, _, _)
GapFill(mask, i, pre, post) ==
    IF i >= ALen(mask) - post - 1
    THEN mask
    ELSE GapFill(Upd(mask, i, GapAt(mask, i, pre, post)), i + 1, pre, post)

(* The run after its refinement rf of the main pass st: the gap-filling,   *)
(* and what the run hands back.                                             *)
AfterRefinement(p, st, rf) ==
    [mask |-> GapFill(rf.mask, p.pre, p.pre, p.post),
     main |-> st.mask, refined |-> rf.mask, converged |-> rf.converged,
     passes |-> rf.passes, baseline |-> st.baseline, std |-> st.std]

(* The run after its main pass st: the refinement, then the rest *)
AfterMainPass(x, p, st) ==
    AfterRefinement(p, st, RefineLoop(x, st.mask, ALen(x) + 1, 0))

(* A whole detector run: main pass, refinement, gap-filling *)
DetectRun(x, p, k_up, k_down) == AfterMainPass(x, p, MainPass(x, p, k_up, k_down))

(* _detect_events_with_params: the mask only *)
DetectEventsWithParams(x, p, k_up, k_down) == DetectRun(x, p, k_up, k_down).mask

---------------------------------------------------------------------------
(* SignalProcessor._detect_events_with_baseline, the second copy of the    *)
(* detector, translated on its own from its source lines: it keeps the     *)
(* baseline and the deviation of every step in two arrays.                 *)

(* The state before its loop *)
BaselineInit(x, w) ==
    LET N == ALen(x)
        x_filtered == [j \in 1..w |-> BigOf(x[j - 1])]
        baseline2 == Median2(x_filtered)
        dev4 == Mad4(x_filtered, baseline2)
    IN  [mask |-> Zeros(N), buf |-> x_filtered, unit |-> BigOf(1),
         base2 |-> baseline2, mad4 |-> dev4, cn |-> InitSigmaNum, cd |-> InitSigmaDen,
         baseline |-> [i \in 0..(N - 1) |->
                          IF i < w THEN [n |-> baseline2, u |-> BigOf(1)] ELSE RealZero],
         std |-> [i \in 0..(N - 1) |->
                     IF i < w
                     THEN [n |-> BMul(dev4, InitSigmaNum), d |-> InitSigmaDen, u |-> BigOf(1)]
                     ELSE SigmaZero]]

(* The label it gives sample i, difference2 being twice the difference at  *)
(* the scale of the step                                                    *)
BaselineLabel(difference2, previous, k_up, k_down, st) ==
    IF \/ /\ BLess(BMul(BMul(st.mad4, k_up[1]), st.cn),
                   BMul(BMul(difference2, 2 * k_up[2]), st.cd))
          /\ BLess(BZero, difference2)
       \/ /\ BLess(BZero, difference2)
          /\ previous = UP
    THEN UP
    ELSE IF \/ /\ BLess(BMul(BMul(difference2, 2 * k_down[2]), st.cd),
                        BNeg(BMul(BMul(st.mad4, k_down[1]), st.cn)))
               /\ BLess(difference2, BZero)
            \/ /\ BLess(difference2, BZero)
               /\ previous = DOWN
         THEN DOWN
         ELSE NONE

(* What it appends to x_filtered *)
BaselineAppended(label, X, last, influence) ==
    IF label \in {UP, DOWN}
    THEN BAdd(BMul(X, influence[1]), BMul(last, influence[2] - influence[1]))
    ELSE BMul(X, influence[2])

(* Its run-merge *)
BaselineRunMerge(mask, i, w, run_min) ==
    IF ~(i > w + run_min)
    THEN mask
    ELSE IF /\ mask[i] = UP
            /\ 10 * Cardinality({j \in SliceIdx(ALen(mask), i - run_min, i - 1) :
                                    mask[j] = UP}) > 8 * run_min
         THEN [j \in DOMAIN mask |->
                  IF j \in SliceIdx(ALen(mask), i - run_min, i) THEN UP ELSE mask[j]]
         ELSE IF /\ mask[i] = DOWN
                 /\ 10 * Cardinality({j \in SliceIdx(ALen(mask), i - run_min, i - 1) :
                                         mask[j] = DOWN}) > 8 * run_min
              THEN [j \in DOMAIN mask |->
                       IF j \in SliceIdx(ALen(mask), i - run_min, i) THEN DOWN ELSE mask[j]]
              ELSE mask

(* One iteration of its "for i in range(w, N)" *)
BaselineStep(x, p, k_up, k_down, st, i) ==
    LET X == BMul(st.unit, x[i])
        difference2 == BSub(BMul(X, 2), st.base2)
        label == BaselineLabel(difference2, st.mask[i - 1], k_up, k_down, st)
        appended == BaselineAppended(label, X, st.buf[Len(st.buf)], p.influence)
        x_filtered == [j \in 1..Len(st.buf) |-> BMul(st.buf[j], p.influence[2])]
                          \o <<appended>>
        kept == SubSeq(x_filtered, Len(x_filtered) - p.w + 1, Len(x_filtered))
        unit == BMul(st.unit, p.influence[2])
        baseline2 == Median2(kept)
        dev4 == Mad4(kept, baseline2)
    IN  [mask |-> BaselineRunMerge(Upd(st.mask, i, label), i, p.w, p.run_min),
         buf |-> kept, unit |-> unit, base2 |-> baseline2, mad4 |-> dev4,
         cn |-> RunSigmaNum, cd |-> RunSigmaDen,
         baseline |-> Upd(st.baseline, i, [n |-> baseline2, u |-> unit]),
         std |-> Upd(st.std, i,
                     [n |-> BMul(dev4, RunSigmaNum), d |-> RunSigmaDen, u |-> unit])]

RECURSIVE BaselineLoop(_, _, _, _, _, _)
BaselineLoop(x, p, k_up, k_down, st, i) ==
    IF i >= ALen(st.mask)
    THEN st
    ELSE BaselineLoop(x, p, k_up, k_down, BaselineStep(x, p, k_up, k_down, st, i), i + 1)

(* Its refinement rule at index i: the label of sample i-1 after it *)
BaselineRefineAt(x, mask, i) ==
    IF /\ mask[i] = UP
       /\ 10 * Cardinality({j \in SliceIdx(ALen(x), i - PuntosPrevios, i) : x[j] <= x[i]})
              >= 8 * PuntosPrevios
    THEN UP
    ELSE IF /\ mask[i] = DOWN
            /\ 10 * Cardinality({j \in SliceIdx(ALen(x), i - PuntosPrevios, i) : x[j] >= x[i]})
                   >= 8 * PuntosPrevios
         THEN DOWN
         ELSE mask[i - 1]

RECURSIVE BaselineRefinePass(_, _, _)
BaselineRefinePass(x, mask, i) ==
    IF i >= ALen(mask) - 1
    THEN mask
    ELSE BaselineRefinePass(x, Upd(mask, i - 1, BaselineRefineAt(x, mask, i)), i + 1)

(* Its "while cambios", with the fuel of RefineLoop *)
RECURSIVE BaselineRefineLoop(_, _, _)
BaselineRefineLoop(x, mask, fuel) ==
    IF BaselineRefinePass(x, mask, 1) = mask \/ fuel = 0
    THEN BaselineRefinePass(x, mask, 1)
    ELSE BaselineRefineLoop(x, BaselineRefinePass(x, mask, 1), fuel - 1)

(* Its gap-filling at index i *)
BaselineGapAt(mask, i, pre, post) ==
    IF /\ mask[i] = NONE
       /\ \E j \in SliceIdx(ALen(mask), i - pre, i) : mask[j] = UP
       /\ \E j \in SliceIdx(ALen(mask), i + 1, i + 1 + post) : mask[j] = UP
    THEN UP
    ELSE IF /\ mask[i] = NONE
            /\ \E j \in SliceIdx(ALen(mask), i - pre, i) : mask[j] = DOWN
            /\ \E j \in SliceIdx(ALen(mask), i + 1, i + 1 + post) : mask[j] = DOWN
         THEN DOWN
         ELSE mask[i]

RECURSIVE BaselineGapFill(_, _, _, _)
BaselineGapFill(mask, i, pre, post) ==
    IF i >= ALen(mask) - post - 1
    THEN mask
    ELSE BaselineGapFill(Upd(mask, i, BaselineGapAt(mask, i, pre, post)), i + 1, pre, post)

(* What it returns after its main loop ended in st *)
BaselineAfterLoop(x, p, st) ==
    [mask |-> BaselineGapFill(BaselineRefineLoop(x, st.mask, ALen(x) + 1),
                              p.pre, p.pre, p.post),
     baseline |-> st.baseline, std |-> st.std]

(* A whole run of the second copy *)
BaselineRun(x, p, k_up, k_down) ==
    BaselineAfterLoop(x, p, BaselineLoop(x, p, k_up, k_down, BaselineInit(x, p.w), p.w))

(* return event_mask, baseline_array, std_array *)
BaselineResult(r) == [mask |-> r.mask, baseline |-> r.baseline, std |-> r.std]

(* _detect_events_with_baseline: mask, baseline and deviation; it also     *)
(* stores its mask in self.event_mask.                                      *)
DetectEventsWithBaseline(x, p, k_up, k_down) ==
    BaselineResult(BaselineRun(x, p, k_up, k_down))

---------------------------------------------------------------------------
(* SignalProcessor.robust_event_detection *)

(* k_down * 2 *)
Twice(k) == <<2 * k[1], k[2]>>

(* The signal the detection runs on: "if use_smoothed and                  *)
(* self.smoothed_signal is not None"                                        *)
DetectionInput(orig, smooth, use_smoothed) ==
    IF use_smoothed /\ smooth # None THEN smooth.val ELSE orig

(* The DOWN labels overlaid first and the UP labels last *)
MergeMasksUpLast(mask_up, mask_down) ==
    [i \in DOMAIN mask_up |->
        IF mask_up[i] = UP THEN UP
        ELSE IF mask_down[i] = DOWN THEN DOWN
        ELSE NONE]

(* Every label of either mask kept, DOWN over UP *)
MergeMasksEither(mask_up, mask_down) ==
    [i \in DOMAIN mask_up |->
        IF mask_up[i] = DOWN \/ mask_down[i] = DOWN THEN DOWN
        ELSE IF mask_up[i] = UP \/ mask_down[i] = UP THEN UP
        ELSE NONE]

(* The two masks added instead of overlaid *)
MergeMasksSum(mask_up, mask_down) ==
    [i \in DOMAIN mask_up |-> mask_up[i] + mask_down[i]]

(* event_mask[mask_up == 1] = 1; event_mask[mask_down == -1] = -1 *)
MergeMasks(mask_up, mask_down) ==
    [i \in DOMAIN mask_up |->
        IF mask_down[i] = DOWN THEN DOWN
        ELSE IF mask_up[i] = UP THEN UP
        ELSE NONE]

(* Empty arrays instead of arrays of N zeros *)
EmptyResult(N) ==
    [event_mask |-> Zeros(0), baseline |-> Zeros(0), std |-> Zeros(0)]

(* "Señal muy corta": return np.zeros(N), np.zeros(N), np.zeros(N) *)
DegenerateResult(N) ==
    [event_mask |-> Zeros(N),
     baseline |-> [i \in 0..(N - 1) |-> RealZero],
     std |-> [i \in 0..(N - 1) |-> SigmaZero]]

(* What the call returns for the two masks and the baseline run, what it   *)
(* leaves in self.event_mask, and the two masks it merged.                 *)
DetectionResult(mask_up, mask_down, wb) ==
    [ret |-> [event_mask |-> MergeMasks(mask_up, mask_down),
              baseline |-> wb.baseline,
              std |-> wb.std],
     event_mask |-> Some(MergeMasks(mask_up, mask_down)),
     locals |-> [mask_up |-> mask_up, mask_down |-> mask_down]]

(* The detection on the signal x: the degenerate result when the trace is  *)
(* too short (self.event_mask is then left as it was, and no mask is       *)
(* merged), the three runs otherwise.                                       *)
DetectOn(x, stored, p) ==
    IF ALen(x) < p.w * 2
    THEN [ret |-> DegenerateResult(ALen(x)),
          event_mask |-> stored,
          locals |-> None]
    ELSE DetectionResult(DetectEventsWithParams(x, p, p.k_up, p.k_down),
                         DetectEventsWithParams(x, p, Twice(p.k_down), p.k_down),
                         DetectEventsWithBaseline(x, p, p.k_up, p.k_down))

(* The call *)
RobustEventDetection(orig, smooth, stored, p) ==
    DetectOn(DetectionInput(orig, smooth, p.use_smoothed), stored, p)

---------------------------------------------------------------------------
(* calculate_stimulus_metrics.  Times are integers; a real is a pair       *)
(* [n, d] standing for n / d.                                               *)

Return(v) == [exc |-> "none", value |-> v]
Raise(e) == [exc |-> e, value |-> None]

SetMin(S) == CHOOSE m \in S : \A k \in S : m <= k
SetMax(S) == CHOOSE m \in S : \A k \in S : m >= k

(* numpy broadcasting of two one-dimensional operands of lengths a and b *)
BroadcastOk(a, b) == a = b \/ a = 1 \/ b = 1
BroadcastLen(a, b) == IF a = 1 THEN b ELSE a
Elem(arr, i) == IF ALen(arr) = 1 THEN arr[0] ELSE arr[i]

(* np.where((time_array >= lo) & (time_array <= hi))[0] *)
TimeRange(time_array, lo, hi) ==
    {i \in DOMAIN time_array : time_array[i] >= lo /\ time_array[i] <= hi}

(* np.where((time_array >= lo) & (time_array <= hi) & (event_mask == 1))[0] *)
StartIndices(time_array, mask, lo, hi) ==
    {i \in 0..(BroadcastLen(ALen(time_array), ALen(mask)) - 1) :
        /\ Elem(time_array, i) >= lo
        /\ Elem(time_array, i) <= hi
        /\ Elem(mask, i) = UP}

(* The search with ">=": a DOWN sample at the time of the onset counts *)
EndIndicesFromOnset(time_array, mask, after, hi) ==
    {i \in 0..(BroadcastLen(ALen(time_array), ALen(mask)) - 1) :
        /\ Elem(time_array, i) >= after
        /\ Elem(time_array, i) <= hi
        /\ Elem(mask, i) = DOWN}

(* np.where((time_array > after) & (time_array <= hi) & (event_mask == -1))[0] *)
EndIndices(time_array, mask, after, hi) ==
    {i \in 0..(BroadcastLen(ALen(time_array), ALen(mask)) - 1) :
        /\ Elem(time_array, i) > after
        /\ Elem(time_array, i) <= hi
        /\ Elem(mask, i) = DOWN}

(* (len - 1) * (signal_segment - np.linspace(first, last, len)) *)
SignalCorrected(signal_data, start_idx, end_idx) ==
    LET len == end_idx - start_idx + 1
        first == signal_data[start_idx]
        last == signal_data[end_idx]
    IN  [j \in 0..(len - 1) |->
            (signal_data[start_idx + j] - first) * (len - 1) - j * (last - first)]

(* 2 * trapezoid(y[:n], x[:n]) *)
RECURSIVE Trapezoid2(_, _, _)
Trapezoid2(y, x, n) ==
    IF n < 2
    THEN 0
    ELSE Trapezoid2(y, x, n - 1) + (y[n - 2] + y[n - 1]) * (x[n - 1] - x[n - 2])

(* The samples of one minute counted with both of its ends *)
OneMinIndicesInclusive(dt) ==
    IF dt > 0 THEN TicksPerMinute \div dt + 1 ELSE -(TicksPerMinute \div (-dt)) + 1

(* int(1 / dt), dt # 0: the quotient truncated towards zero.  A time is a *)
(* whole number of ticks, TicksPerMinute of them to the minute.            *)
OneMinIndices(dt) ==
    IF dt > 0 THEN TicksPerMinute \div dt ELSE -(TicksPerMinute \div (-dt))

(* The number of elements of a[:k] for an array of n elements *)
PrefixLen(n, k) == SliceLo(n, k)

(* The record of metrics for the segment start_idx..end_idx *)
MetricRecord(signal_data, time_array, start_idx, end_idx) ==
    LET len == end_idx - start_idx + 1
        corrected == SignalCorrected(signal_data, start_idx, end_idx)
        time_segment == [j \in 0..(len - 1) |-> time_array[start_idx + j]]
        area_total == Trapezoid2(corrected, time_segment, len)
        dt == time_array[1] - time_array[0]
        area_1min ==
            IF dt = 0
            THEN area_total
            ELSE IF len > OneMinIndices(dt)
                 THEN Trapezoid2(corrected, time_segment,
                                 PrefixLen(len, OneMinIndices(dt)))
                 ELSE area_total
    IN  [start_time |-> time_segment[0],
         end_time |-> time_segment[len - 1],
         duration |-> time_segment[len - 1] - time_segment[0],
         area_total |-> [n |-> area_total, d |-> 2 * (len - 1)],
         area_1min |-> [n |-> area_1min, d |-> 2 * (len - 1)],
         max_value |-> [n |-> SetMax({corrected[j] : j \in 0..(len - 1)}),
                        d |-> len - 1],
         signal_corrected |-> [j \in 0..(len - 1) |-> [n |-> corrected[j], d |-> len - 1]],
         time_corrected |-> time_segment]

(* From the resolved indices to the return value *)
MetricsFromIndices(signal_data, time_array, start_idx, end_idx) ==
    IF \/ start_idx >= end_idx
       \/ start_idx >= ALen(signal_data)
       \/ end_idx >= ALen(signal_data)
    THEN Return(None)
    ELSE IF Min2(end_idx + 1, ALen(time_array)) - start_idx < 2
         THEN Return(None)
         ELSE Return(MetricRecord(signal_data, time_array, start_idx, end_idx))

(* The fallback end is the last sample of the recording, not the last      *)
(* sample of the window                                                     *)
MetricsFromStartToLastSample(signal_data, time_array, mask, effective_end, start_idx) ==
    IF start_idx >= ALen(time_array)
    THEN Raise("IndexError")
    ELSE LET end_indices ==
                 EndIndices(time_array, mask, time_array[start_idx], effective_end)
         IN  IF end_indices # {}
             THEN MetricsFromIndices(signal_data, time_array, start_idx,
                                     SetMax(end_indices))
             ELSE MetricsFromIndices(signal_data, time_array, start_idx,
                                     ALen(time_array) - 1)

(* From the onset index on: the search for the end of the segment *)
MetricsFromStart(signal_data, time_array, mask, effective_end, start_idx) ==
    IF start_idx >= ALen(time_array)
    THEN Raise("IndexError")
    ELSE LET end_indices ==
                 EndIndices(time_array, mask, time_array[start_idx], effective_end)
             fallback_end ==
                 {i \in DOMAIN time_array : time_array[i] <= effective_end}
         IN  IF end_indices # {}
             THEN MetricsFromIndices(signal_data, time_array, start_idx,
                                     SetMax(end_indices))
             ELSE IF fallback_end = {}
                  THEN Return(None)
                  ELSE MetricsFromIndices(signal_data, time_array, start_idx,
                                          SetMax(fallback_end))

(* No fallback to the window's first sample: no UP sample, no metric *)
MetricsInWindowNoFallback(signal_data, time_array, mask, stimulus_start, effective_end) ==
    IF TimeRange(time_array, stimulus_start, effective_end) = {}
    THEN Return(None)
    ELSE IF ~BroadcastOk(ALen(time_array), ALen(mask))
         THEN Raise("ValueError")
         ELSE IF StartIndices(time_array, mask, stimulus_start, effective_end) = {}
              THEN Return(None)
              ELSE MetricsFromStart(
                       signal_data, time_array, mask, effective_end,
                       SetMin(StartIndices(time_array, mask, stimulus_start,
                                           effective_end)))

(* The body of the try block, with the window end known *)
MetricsInWindow(signal_data, time_array, mask, stimulus_start, effective_end) ==
    IF TimeRange(time_array, stimulus_start, effective_end) = {}
    THEN Return(None)
    ELSE IF ~BroadcastOk(ALen(time_array), ALen(mask))
         THEN Raise("ValueError")
         ELSE LET start_indices ==
                      StartIndices(time_array, mask, stimulus_start, effective_end)
                  fallback_start ==
                      {i \in DOMAIN time_array : time_array[i] >= stimulus_start}
              IN  IF start_indices # {}
                  THEN MetricsFromStart(signal_data, time_array, mask,
                                        effective_end, SetMin(start_indices))
                  ELSE IF fallback_start = {}
                       THEN Return(None)
                       ELSE MetricsFromStart(signal_data, time_array, mask,
                                             effective_end, SetMin(fallback_start))

(* The body of the try block: a return value or the exception it raises *)
MetricsBody(signal_data, time_array, mask, stimulus_start, next_stimulus_start) ==
    IF next_stimulus_start # None
    THEN MetricsInWindow(signal_data, time_array, mask, stimulus_start,
                         next_stimulus_start.val)
    ELSE IF ALen(time_array) = 0
         THEN Raise("IndexError")
         ELSE MetricsInWindow(signal_data, time_array, mask, stimulus_start,
                              time_array[ALen(time_array) - 1])

(* No except clause: the exception leaves the function *)
ExceptPropagates(body) == body

(* "except Exception": the exception does not leave the function *)
ExceptReturnsNone(body) == IF body.exc # "none" THEN Return(None) ELSE body

(* calculate_stimulus_metrics *)
CalculateStimulusMetrics(signal_data, time_array, mask, stimulus_start, next_stimulus_start) ==
    ExceptReturnsNone(MetricsBody(signal_data, time_array, mask,
                                  stimulus_start, next_stimulus_start))

---------------------------------------------------------------------------
(* apply_butter_filter.  Rates and cutoffs are integers in one unit; a     *)
(* cutoff is Scalar(c) or Tuple(cs), each c a number or None.              *)

Scalar(c) == [kind |-> "scalar", value |-> c]
Tuple(cs) == [kind |-> "tuple", values |-> cs]

(* The array a filter of scipy returns: as long as its input; its values   *)
(* are not computed here.                                                   *)
FilterOutputs(x) == [DOMAIN x -> 0..MaxSig]

(* c >= c2 against the rate itself, not half of it *)
AtOrAboveRate(c, sampling_rate_hz) == c >= sampling_rate_hz

(* c >= nyquist, nyquist = 0.5 * sampling_rate_hz *)
AtOrAboveNyquist(c, sampling_rate_hz) == 2 * c >= sampling_rate_hz

(* The early returns on the cutoff: the tuple branch and the scalar branch *)
CutoffRejected(sampling_rate_hz, cutoff_hz) ==
    IF cutoff_hz.kind = "tuple"
    THEN IF \/ Len(cutoff_hz.values) # 2
            \/ cutoff_hz.values[1] = None
            \/ cutoff_hz.values[2] = None
         THEN TRUE
         ELSE \/ cutoff_hz.values[1].val <= 0
              \/ AtOrAboveNyquist(cutoff_hz.values[2].val, sampling_rate_hz)
              \/ cutoff_hz.values[1].val >= cutoff_hz.values[2].val
    ELSE IF cutoff_hz.value = None
         THEN TRUE
         ELSE \/ cutoff_hz.value.val <= 0
              \/ AtOrAboveNyquist(cutoff_hz.value.val, sampling_rate_hz)

(* signal.butter rejects one critical frequency for a band filter and two  *)
(* for a lowpass or highpass filter.                                        *)
ButterRejects(filter_type, cutoff_hz) ==
    IF filter_type \in {"lowpass", "highpass"}
    THEN cutoff_hz.kind = "tuple"
    ELSE cutoff_hz.kind = "scalar"

(* The default padlen of signal.filtfilt: 3 * max(len(a), len(b)) *)
PadLen(filter_type, order) ==
    IF filter_type \in {"lowpass", "highpass"}
    THEN 3 * (order + 1)
    ELSE 3 * (2 * order + 1)

(* apply_butter_filter: "unchanged" (the input returned as floats),        *)
(* "filtered" (the output of filtfilt) or the exception scipy raises.      *)
ApplyButterFilter(signal_data, sampling_rate_hz, filter_type, cutoff_hz, order) ==
    IF filter_type = "none"
    THEN Return("unchanged")
    ELSE IF sampling_rate_hz <= 0
         THEN Return("unchanged")
         ELSE IF CutoffRejected(sampling_rate_hz, cutoff_hz)
              THEN Return("unchanged")
              ELSE IF ButterRejects(filter_type, cutoff_hz)
                   THEN Raise("ValueError")
                   ELSE IF ALen(signal_data) <= PadLen(filter_type, order)
                        THEN Raise("ValueError")
                        ELSE Return("filtered")

---------------------------------------------------------------------------
(* SignalProcessor.apply_savgol_filter *)

(* "Asegurar que window es impar" *)
OddWindow(window) == IF window % 2 = 0 THEN window + 1 ELSE window

(* signal.savgol_filter (mode "interp") rejects a polynomial order that is *)
(* not below the window length and a window longer than the signal.        *)
ApplySavgolFilter(x, window, polyorder) ==
    IF polyorder >= OddWindow(window) \/ OddWindow(window) > ALen(x)
    THEN Raise("ValueError")
    ELSE Return("smoothed")

---------------------------------------------------------------------------
(* SignalProcessor.detect_event_bounds *)

NoBounds ==
    [up_start |-> <<>>, up_end |-> <<>>, down_start |-> <<>>, down_end |-> <<>>,
     in_up_event |-> FALSE, in_down_event |-> FALSE]

(* One iteration of "for i in range(1, len(event_mask))" *)
BoundsStep(mask, times, i, b) ==
    LET up == mask[i] > 0
        up_before == mask[i - 1] > 0
        down == mask[i] < 0
        down_before == mask[i - 1] < 0
    IN  [up_start |-> IF up /\ ~up_before
                      THEN Append(b.up_start, times[i]) ELSE b.up_start,
         up_end |-> IF ~up /\ up_before
                    THEN Append(b.up_end, times[i - 1]) ELSE b.up_end,
         in_up_event |-> IF up /\ ~up_before THEN TRUE
                         ELSE IF ~up /\ up_before THEN FALSE ELSE b.in_up_event,
         down_start |-> IF down /\ ~down_before
                        THEN Append(b.down_start, times[i]) ELSE b.down_start,
         down_end |-> IF ~down /\ down_before
                      THEN Append(b.down_end, times[i - 1]) ELSE b.down_end,
         in_down_event |-> IF down /\ ~down_before THEN TRUE
                           ELSE IF ~down /\ down_before THEN FALSE
                           ELSE b.in_down_event]

RECURSIVE BoundsLoop(_, _, _, _)
BoundsLoop(mask, times, i, b) ==
    IF i >= ALen(mask)
    THEN b
    ELSE BoundsLoop(mask, times, i + 1, BoundsStep(mask, times, i, b))

(* The events that last to the final sample left without an end *)
BoundsOfUnclosed(mask, times) ==
    [up_start |-> BoundsLoop(mask, times, 1, NoBounds).up_start,
     up_end |-> BoundsLoop(mask, times, 1, NoBounds).up_end,
     down_start |-> BoundsLoop(mask, times, 1, NoBounds).down_start,
     down_end |-> BoundsLoop(mask, times, 1, NoBounds).down_end]

(* "Cerrar eventos que llegan hasta el final", and the dictionary returned *)
BoundsOf(mask, times) ==
    LET b == BoundsLoop(mask, times, 1, NoBounds)
        last == times[ALen(times) - 1]
    IN  [up_start |-> b.up_start,
         up_end |-> IF b.in_up_event THEN Append(b.up_end, last) ELSE b.up_end,
         down_start |-> b.down_start,
         down_end |-> IF b.in_down_event THEN Append(b.down_end, last)
                      ELSE b.down_end]

(* No mask, no exception: four empty lists *)
DetectEventBoundsFailSoft(given, stored, times) ==
    IF given # None
    THEN Return(BoundsOf(given.val, times))
    ELSE IF stored # None
         THEN Return(BoundsOf(stored.val, times))
         ELSE Return([up_start |-> <<>>, up_end |-> <<>>,
                      down_start |-> <<>>, down_end |-> <<>>])

(* detect_event_bounds(event_mask=given) with self.event_mask = stored and *)
(* self.time = times, mask and time axis of one length.                    *)
DetectEventBounds(given, stored, times) ==
    IF given # None
    THEN Return(BoundsOf(given.val, times))
    ELSE IF stored # None
         THEN Return(BoundsOf(stored.val, times))
         ELSE Raise("ValueError")

---------------------------------------------------------------------------
(* interpolate_masked_signal.  The values of the returned array are reals, *)
(* pairs [n, d] standing for n / d.                                        *)

Real(n, d) == [n |-> n, d |-> d]
RealEq(a, b) == a.n * b.d = b.n * a.d

(* np.asarray(signal_data, dtype=float) *)
AsFloat(signal_data) == [i \in DOMAIN signal_data |-> Real(signal_data[i], 1)]

(* np.isfinite *)
IsFinite(v) == v \in Int

(* valid = keep_mask & np.isfinite(x), as the set idx[valid] *)
ValidIdx(signal_data, keep_mask) ==
    {i \in DOMAIN signal_data : keep_mask[i] /\ IsFinite(signal_data[i])}

(* np.interp(j, idx[valid], x[valid]): linear between the neighbours of j  *)
(* in valid, the first or last valid value outside them.                   *)
Interp(signal_data, valid, j) ==
    IF j <= SetMin(valid)
    THEN Real(signal_data[SetMin(valid)], 1)
    ELSE IF j >= SetMax(valid)
         THEN Real(signal_data[SetMax(valid)], 1)
         ELSE IF j \in valid
              THEN Real(signal_data[j], 1)
              ELSE Real(signal_data[SetMax({v \in valid : v < j})]
                          * (SetMin({v \in valid : v > j}) - j)
                        + signal_data[SetMin({v \in valid : v > j})]
                          * (j - SetMax({v \in valid : v < j})),
                        SetMin({v \in valid : v > j}) - SetMax({v \in valid : v < j}))

(* The array x when the function returns *)
Interpolated(signal_data, keep_mask) ==
    IF \A i \in DOMAIN keep_mask : keep_mask[i]
    THEN AsFloat(signal_data)
    ELSE IF Cardinality(ValidIdx(signal_data, keep_mask)) < 2
         THEN AsFloat(signal_data)
         ELSE [i \in DOMAIN signal_data |->
                  IF keep_mask[i]
                  THEN Real(signal_data[i], 1)
                  ELSE Interp(signal_data, ValidIdx(signal_data, keep_mask), i)]

(* x = np.asarray(signal_data, dtype=float) without .copy(): for a float   *)
(* array x is the caller's array itself and the assignment to x[~keep_mask] *)
(* lands in it.                                                             *)
InterpolateInPlace(signal_data, keep_mask) ==
    [value |-> Interpolated(signal_data, keep_mask),
     signal_data |-> Interpolated(signal_data, keep_mask),
     keep_mask |-> keep_mask]

(* interpolate_masked_signal(signal_data, keep_mask): the array returned,  *)
(* and the caller's two arrays as the call leaves them.  x is a copy, so   *)
(* the only subscript assignment of the function writes to the copy;       *)
(* keep_mask is rebound, never written.                                    *)
InterpolateMaskedSignal(signal_data, keep_mask) ==
    [value |-> Interpolated(signal_data, keep_mask),
     signal_data |-> AsFloat(signal_data),
     keep_mask |-> keep_mask]

---------------------------------------------------------------------------
(* compute_fft_spectrum *)

(* Bins up to the half of n rounded up *)
RfftFreqRoundUp(n, sampling_rate_hz) ==
    [k \in 0..((n + 1) \div 2) |-> Real(k * sampling_rate_hz, n)]

(* np.fft.rfftfreq(n, d=1.0 / sampling_rate_hz): the n // 2 + 1 values     *)
(* k / (d * n), k = 0 .. n // 2                                             *)
RfftFreq(n, sampling_rate_hz) ==
    [k \in 0..(n \div 2) |-> Real(k * sampling_rate_hz, n)]

(* np.abs(np.fft.rfft(x)): n // 2 + 1 magnitudes, their values not         *)
(* computed here.                                                           *)
RfftMagnitudes(n) == [0..(n \div 2) -> 0..MaxSig]

(* compute_fft_spectrum(signal_data, sampling_rate_hz, detrend, window):   *)
(* the bins; np.fft.rfft raises ValueError on an empty array.              *)
ComputeFftSpectrum(signal_data, sampling_rate_hz) ==
    IF ALen(signal_data) = 0
    THEN Raise("ValueError")
    ELSE Return(RfftFreq(ALen(signal_data), sampling_rate_hz))

---------------------------------------------------------------------------
(* app.py: calculate_all_metrics.  stimuli_data is the sequence of the     *)
(* rows of the CSV, each with its Stimuli, inicio and fin; processed_signals *)
(* is the dictionary in insertion order, a sequence of entries with their  *)
(* roi, smoothed and event_mask.  A ROI is named by its number.            *)

(* np.nan, and a number where np.nan can stand *)
NaN == [nan |-> TRUE]
Num(v) == [nan |-> FALSE, val |-> v]

(* 0.0 as an area *)
ZeroArea == [n |-> 0, d |-> 1]

(* The row appended for metrics that are not None *)
MetricRow(roi_name, stimulus_name, metrics) ==
    [ROI |-> roi_name,
     Stimuli |-> stimulus_name,
     start_time |-> Num(metrics.start_time),
     end_time |-> Num(metrics.end_time),
     duration |-> metrics.duration,
     area_total |-> metrics.area_total,
     area_1min |-> metrics.area_1min,
     max_value |-> metrics.max_value]

(* The row appended when metrics is None, and in the except branch *)
PlaceholderRow(roi_name, stimulus_name) ==
    [ROI |-> roi_name,
     Stimuli |-> stimulus_name,
     start_time |-> NaN,
     end_time |-> NaN,
     duration |-> 0,
     area_total |-> ZeroArea,
     area_1min |-> ZeroArea,
     max_value |-> ZeroArea]

(* Only the valid metrics appended, no row otherwise *)
RowsOfValidOnly(roi_name, stimulus_name, r) ==
    IF r.exc = "none" /\ r.value # None
    THEN <<MetricRow(roi_name, stimulus_name, r.value)>>
    ELSE <<>>

(* What one iteration appends to results, r being the outcome of the call  *)
(* of calculate_stimulus_metrics: try / if metrics is not None / else /    *)
(* except.                                                                  *)
RowsOf(roi_name, stimulus_name, r) ==
    IF r.exc # "none"
    THEN <<PlaceholderRow(roi_name, stimulus_name)>>
    ELSE IF r.value # None
         THEN <<MetricRow(roi_name, stimulus_name, r.value)>>
         ELSE <<PlaceholderRow(roi_name, stimulus_name)>>

(* next_start for the row of index idx (from 0): "if idx <                 *)
(* len(loader.stimuli_data) - 1"                                            *)
NextStart(stimuli_data, idx) ==
    IF idx < Len(stimuli_data) - 1
    THEN Some(stimuli_data[idx + 2].inicio)
    ELSE None

(* One iteration of "for idx, stim_row in loader.stimuli_data.iterrows()" *)
StimulusRows(time_array, stimuli_data, proc_data, idx) ==
    RowsOf(proc_data.roi, stimuli_data[idx + 1].Stimuli,
           CalculateStimulusMetrics(proc_data.smoothed, time_array,
                                    proc_data.event_mask,
                                    stimuli_data[idx + 1].inicio,
                                    NextStart(stimuli_data, idx)))

RECURSIVE StimuliLoop(_, _, _, _, _)
StimuliLoop(time_array, stimuli_data, proc_data, idx, results) ==
    IF idx >= Len(stimuli_data)
    THEN results
    ELSE StimuliLoop(time_array, stimuli_data, proc_data, idx + 1,
                     results \o StimulusRows(time_array, stimuli_data, proc_data, idx))

(* "for roi_name, proc_data in processed_signals.items()", from entry k *)
RECURSIVE RoiLoop(_, _, _, _, _)
RoiLoop(time_array, stimuli_data, processed_signals, k, results) ==
    IF k > Len(processed_signals)
    THEN results
    ELSE RoiLoop(time_array, stimuli_data, processed_signals, k + 1,
                 StimuliLoop(time_array, stimuli_data, processed_signals[k], 0,
                             results))

(* calculate_all_metrics: the rows of results_df *)
CalculateAllMetrics(time_array, stimuli_data, processed_signals) ==
    RoiLoop(time_array, stimuli_data, processed_signals, 1, <<>>)

---------------------------------------------------------------------------
(* app.py: main, the script Streamlit reruns on every interaction, with    *)
(* load_data and process_signals.  st.session_state outlives a rerun, also *)
(* one that an exception ended.  Real-valued settings are in hundredths.   *)

SG_WINDOW == 15
SG_POLYORDER == 3
TF_CUTOFF_LOW_HZ == 2
TF_CUTOFF_HIGH_HZ == 30
TF_FILTER_ORDER == 4
SIGNAL_WINDOW == 20
K_UP == 165
K_DOWN == 165
INFLUENCE == 95
RUN_MIN == 10
MIN_WINDOW == 5
MAX_K_FACTOR == 500

(* What a loader holds after load_all_data, as far as main and the two     *)
(* processing functions read it: the ROI columns, the number of samples,   *)
(* the sampling rate of the time axis, and whether the stimuli table has   *)
(* the columns 'inicio' and 'fin' (pd.read_csv accepts a table without     *)
(* them, such as one written with another separator than CSV_SEPARATOR).   *)
Loader(name, num_timepoints, stimuli_columns) ==
    [name |-> name, roi_columns |-> {"ROI_1", "ROI_2"},
     num_timepoints |-> num_timepoints, sampling_rate_hz |-> 100,
     stimuli_columns |-> stimuli_columns]

(* load_data: the loader, or None when the files are missing or unreadable *)
LoadData(use_default, files) ==
    IF use_default
    THEN Some(Loader("default", 40, TRUE))
    ELSE IF files = None
         THEN None
         ELSE IF files.val.readable
              THEN Some(Loader(files.val.name, files.val.num_timepoints,
                               files.val.stimuli_columns))
              ELSE None

(* rois_to_process *)
RoisToProcess(loader, config) ==
    IF config.selected_rois # {} THEN config.selected_rois ELSE loader.roi_columns

(* The cutoff process_signals passes to apply_butter_filter *)
ConfigCutoff(config) ==
    IF config.tf_filter_type = "lowpass"
    THEN Scalar(Some(config.tf_cutoff_high))
    ELSE IF config.tf_filter_type = "highpass"
         THEN Scalar(Some(config.tf_cutoff_low))
         ELSE Tuple(<<Some(config.tf_cutoff_low), Some(config.tf_cutoff_high)>>)

(* The exception one ROI's pass through process_signals ends with, "none"  *)
(* when it completes: get_roi_data, apply_savgol_filter, and               *)
(* apply_butter_filter when the sampling rate is positive.                 *)
RoiException(loader, config, roi_name) ==
    IF roi_name \notin loader.roi_columns
    THEN "ValueError"
    ELSE IF ApplySavgolFilter(Zeros(loader.num_timepoints), config.sg_window,
                              config.sg_polyorder).exc # "none"
         THEN "ValueError"
         ELSE IF loader.sampling_rate_hz > 0
              THEN ApplyButterFilter(Zeros(loader.num_timepoints),
                                     loader.sampling_rate_hz, config.tf_filter_type,
                                     ConfigCutoff(config), config.tf_filter_order).exc
              ELSE "none"

(* One entry of processed_signals, held as what it was computed from: the  *)
(* ROI's trace of the loader, the smoothing parameters ('smoothed'), the   *)
(* filter parameters ('tf_filtered'), and the input stream and parameters  *)
(* of the detection ('event_mask', 'baseline', 'std_dev').                 *)
ProcessedEntry(loader, config, roi_name) ==
    [original |-> <<loader.name, roi_name>>,
     smoothed |-> <<config.sg_window, config.sg_polyorder>>,
     tf_filtered |-> <<config.tf_filter_type, config.tf_filter_order,
                       config.tf_cutoff_low, config.tf_cutoff_high>>,
     detection |-> <<config.detection_signal_source, config.signal_window,
                     config.k_up, config.k_down, config.influence, config.run_min>>]

(* The streams of one ROI's pass through process_signals, held as what     *)
(* they were computed from.  signal_data = loader.get_roi_data(roi_name)   *)
SignalData(loader, roi_name) == [stage |-> "original", roi |-> <<loader.name, roi_name>>]

(* smoothed = processor.apply_savgol_filter(window, polyorder), of the     *)
(* processor's original signal                                              *)
Smoothed(signal_data, config) ==
    [stage |-> "savgol", of |-> signal_data,
     window |-> OddWindow(config.sg_window), polyorder |-> config.sg_polyorder]

(* What apply_butter_filter returns for the stream input when it does not  *)
(* raise: the input as floats when it returns early, the output of         *)
(* filtfilt otherwise.                                                      *)
ButterFiltered(input, loader, config) ==
    IF ApplyButterFilter(Zeros(loader.num_timepoints), loader.sampling_rate_hz,
                         config.tf_filter_type, ConfigCutoff(config),
                         config.tf_filter_order).value = "unchanged"
    THEN input
    ELSE [stage |-> "butterworth", of |-> input,
          filter_type |-> config.tf_filter_type, order |-> config.tf_filter_order,
          cutoff |-> ConfigCutoff(config)]

(* "cutoff is not None and not (isinstance(cutoff, tuple) and None in      *)
(* cutoff)"                                                                 *)
CutoffUsable(cutoff) ==
    IF cutoff.kind = "tuple"
    THEN \A k \in DOMAIN cutoff.values : cutoff.values[k] # None
    ELSE cutoff.value # None

(* The filter run on the smoothed trace instead of signal_data *)
TfFilteredOfSmoothed(signal_data, loader, config) ==
    IF loader.sampling_rate_hz > 0 /\ CutoffUsable(ConfigCutoff(config))
    THEN Some(ButterFiltered(Smoothed(signal_data, config), loader, config))
    ELSE None

(* tf_filtered: apply_butter_filter(signal_data, ...) when the sampling    *)
(* rate is positive and the cutoff is set, None otherwise                  *)
TfFiltered(signal_data, loader, config) ==
    IF loader.sampling_rate_hz > 0 /\ CutoffUsable(ConfigCutoff(config))
    THEN Some(ButterFiltered(signal_data, loader, config))
    ELSE None

(* "Detección de eventos usando la señal seleccionada": the processor's    *)
(* smoothed_signal and use_smoothed at the call of robust_event_detection  *)
DetectionSetup(smoothed, tf_filtered, detection_source) ==
    IF detection_source = "butterworth" /\ tf_filtered # None
    THEN [smoothed_signal |-> Some(tf_filtered.val), use_smoothed |-> TRUE]
    ELSE IF detection_source = "original"
         THEN [smoothed_signal |-> Some(smoothed), use_smoothed |-> FALSE]
         ELSE [smoothed_signal |-> Some(smoothed), use_smoothed |-> TRUE]

(* The entry of one ROI with the stream its detection ran on *)
RoiStreams(signal_data, smoothed, tf_filtered, setup) ==
    [original |-> signal_data, smoothed |-> smoothed, tf_filtered |-> tf_filtered,
     use_smoothed |-> setup.use_smoothed,
     detected_on |-> DetectionInput(signal_data, setup.smoothed_signal, setup.use_smoothed)]

(* One ROI's pass: the exception that ends it, or its streams *)
RoiPass(loader, config, roi_name) ==
    IF RoiException(loader, config, roi_name) # "none"
    THEN Raise(RoiException(loader, config, roi_name))
    ELSE Return(RoiStreams(
             SignalData(loader, roi_name),
             Smoothed(SignalData(loader, roi_name), config),
             TfFiltered(SignalData(loader, roi_name), loader, config),
             DetectionSetup(Smoothed(SignalData(loader, roi_name), config),
                            TfFiltered(SignalData(loader, roi_name), loader, config),
                            config.detection_signal_source)))

(* process_signals(loader, config) *)
ProcessSignals(loader, config) ==
    IF \E roi_name \in RoisToProcess(loader, config) :
           RoiException(loader, config, roi_name) # "none"
    THEN Raise("ValueError")
    ELSE Return([roi_name \in RoisToProcess(loader, config) |->
                    ProcessedEntry(loader, config, roi_name)])

(* calculate_all_metrics as main sees it: stim_row['inicio'] is read       *)
(* outside the try, so a stimuli table without the column ends the call    *)
(* with KeyError; otherwise the table is the rows of the processed         *)
(* signals against the loader's stimuli.                                   *)
AllMetrics(loader, processed) ==
    IF ~loader.stimuli_columns /\ DOMAIN processed # {}
    THEN Raise("KeyError")
    ELSE Return([stimuli |-> loader.name, rows_of |-> processed])

(* need_reload *)
NeedReload(ss, config) ==
    IF ~ss.data_loaded
    THEN TRUE
    ELSE IF ss.last_config # None
         THEN ss.last_config.val.use_default # config.use_default
         ELSE FALSE

(* "CARGAR DATOS": the session after the loading block *)
Loaded(ss, loader) ==
    IF loader # None
    THEN [ss EXCEPT !.data_loader = loader, !.data_loaded = TRUE,
                    !.processed_signals = None, !.results_df = None]
    ELSE ss

AfterLoad(ss, config) ==
    IF (config.use_default \/ config.files # None) /\ NeedReload(ss, config)
    THEN Loaded(ss, LoadData(config.use_default, config.files))
    ELSE ss

(* params_to_check *)
ParamsToCheck ==
    {"sg_window", "sg_polyorder", "signal_window", "k_up", "k_down", "influence",
     "run_min", "tf_filter_type", "tf_filter_order", "tf_cutoff_low",
     "tf_cutoff_high", "detection_signal_source"}

(* need_reprocess, asked once data is loaded: the parameters are compared *)
(* only when the session holds both processed signals and a last_config.   *)
NeedReprocess(ss, config) ==
    IF ss.processed_signals = None
    THEN TRUE
    ELSE IF ss.last_config # None
         THEN \/ \E param \in ParamsToCheck :
                    ss.last_config.val[param] # config[param]
              \/ ss.last_config.val.selected_rois # config.selected_rois
         ELSE FALSE

(* The two stores of the processing block, in the order of the code: the   *)
(* processed signals are in the session before the metrics are computed.   *)
StoreResults(ss, results) ==
    IF results.exc # "none"
    THEN [session |-> ss, exc |-> results.exc]
    ELSE [session |-> [ss EXCEPT !.results_df = Some(results.value)], exc |-> "none"]

StoreProcessed(ss, processed) ==
    IF processed.exc # "none"
    THEN [session |-> ss, exc |-> processed.exc]
    ELSE StoreResults([ss EXCEPT !.processed_signals = Some(processed.value)],
                      IF processed.exc # "none" THEN processed
                      ELSE AllMetrics(ss.data_loader.val, processed.value))

(* "PROCESAR SEÑALES SI ES NECESARIO" *)
AfterProcess(ss, config) ==
    IF ss.data_loaded /\ NeedReprocess(ss, config)
    THEN StoreProcessed(ss, ProcessSignals(ss.data_loader.val, config))
    ELSE [session |-> ss, exc |-> "none"]

(* "Guardar configuración actual": reached only when nothing raised *)
SaveConfig(r, config) ==
    IF r.exc # "none"
    THEN r
    ELSE [session |-> [r.session EXCEPT !.last_config = Some(config)], exc |-> "none"]

(* One run of main from the session ss under the sidebar's config.  The    *)
(* sections rendered after the configuration is saved read the session     *)
(* and do not write the keys held here.                                    *)
MainRun(ss, config) == SaveConfig(AfterProcess(AfterLoad(ss, config), config), config)

---------------------------------------------------------------------------
(* The traces and parameters the detector is run on *)

Traces(n) == [0..(n - 1) -> 0..MaxVal]
GenericTraces == UNION {Traces(n) : n \in 0..MaxN}

(* lo for lowlen samples, then hi for highlen samples, then lo again *)
StepTrace(lowlen, highlen, taillen, lo, hi) ==
    [i \in 0..(lowlen + highlen + taillen - 1) |->
        IF lowlen <= i /\ i < lowlen + highlen THEN hi ELSE lo]

StepTraces ==
    {StepTrace(a, b, c, 0, hi) : a \in 1..MaxLow, b \in 1..MaxHigh,
                                 c \in 1..MaxTail, hi \in 1..MaxVal}

(* trace = [0,0,0,0,0,1,1,1,1,1,0,0,0,0,0], w=5, k_up=k_down=1.0,          *)
(* influence=0.9, run_merge=2                                               *)
ScenarioTrace == StepTrace(5, 5, 5, 0, 1)
ScenarioParams ==
    [w |-> 5, k_up |-> <<1, 1>>, k_down |-> <<1, 1>>, influence |-> <<9, 10>>,
     use_smoothed |-> TRUE, run_min |-> 2, pre |-> AdjDefault, post |-> AdjDefault]

KSet == {<<n, 2>> : n \in 1..MaxK2}
InfluenceSet == {<<a, InflDen>> : a \in 0..InflDen}
AdjSet == 1..MaxAdj
GenericParams ==
    {[w |-> w, k_up |-> ku, k_down |-> kd, influence |-> inf,
      use_smoothed |-> TRUE, run_min |-> r, pre |-> adj, post |-> adj] :
        w \in 1..MaxW, ku \in KSet, kd \in KSet, inf \in InfluenceSet,
        r \in 1..MaxRun, adj \in AdjSet}
DetectParams == GenericParams \cup {ScenarioParams}
DetectTraces == GenericTraces \cup StepTraces \cup {ScenarioTrace}

(* Traces on which the run with (k_up, k_down) and the run with            *)
(* (k_down * 2, k_down) label a sample differently: the first run damps a  *)
(* sample the second run takes into its buffer unchanged.                  *)
TraceOf(s) == [i \in 0..(Len(s) - 1) |-> s[i + 1]]
DisagreementTraces == {TraceOf(<<1, 0, 1, 2, 1, 1>>), TraceOf(<<0, 2, 3, 0, 2, 2>>)}

(* The inputs the metric extractor is run on: a time axis that never       *)
(* decreases, a signal of that length or one sample shorter, any mask.     *)
TimeAxes ==
    UNION {{t \in [0..(n - 1) -> 0..MaxTime] :
               \A i \in 1..(n - 1) : t[i - 1] <= t[i]} : n \in 0..MaxT}
SignalsFor(n) == UNION {[0..(m - 1) -> 0..MaxSig] : m \in {n, Max2(n - 1, 0)}}
Masks == UNION {[0..(n - 1) -> {DOWN, NONE, UP}] : n \in 0..MaxT}
StimulusTimes == 0..MaxTime
OptionalTimes == {None} \cup {Some(c) : c \in StimulusTimes}

(* The inputs the Butterworth wrapper is run on: short signals and one     *)
(* longer than the padding of a lowpass filter of the highest order.       *)
LongSignal == [i \in 0..PadLen("lowpass", MaxOrder) |-> i % 2]
FilterSignals == UNION {[0..(n - 1) -> 0..MaxSig] : n \in 0..2} \cup {LongSignal}
FilterTypes == {"none", "lowpass", "highpass", "bandpass", "bandstop"}
Rates == (-1)..MaxRate
OptionalCuts == {None} \cup {Some(c) : c \in 0..MaxCut}
Cutoffs ==
    {Scalar(c) : c \in OptionalCuts}
        \cup {Tuple(<<lo, hi>>) : lo \in OptionalCuts, hi \in OptionalCuts}
        \cup {Tuple(<<Some(1)>>), Tuple(<<Some(1), Some(2), Some(3)>>)}

(* The traces and arguments of a processor's life *)
ProcTraces == UNION {[0..(n - 1) -> 0..MaxSig] : n \in 0..MaxProcN}
ProcParams ==
    {[w |-> w, k_up |-> <<1, 2>>, k_down |-> <<1, 2>>, influence |-> <<1, 2>>,
      use_smoothed |-> u, run_min |-> 1, pre |-> 1, post |-> 1] :
        w \in 1..MaxW, u \in BOOLEAN}
ProcRates == {0, MaxRate}
ProcCutoffs == {Scalar(Some(1)), Tuple(<<Some(1), Some(2)>>)}

(* The inputs calculate_all_metrics is run on: a time axis of one tick a  *)
(* sample, up to MaxStim stimuli numbered by their row, and the entries of *)
(* up to MaxRoi ROIs in any order, each a flat or an alternating signal    *)
(* with any mask.                                                           *)
TableTimeAxes == {[i \in 0..(n - 1) |-> i] : n \in 0..MaxTableN}
TableSignals(t) == {[i \in DOMAIN t |-> 0], [i \in DOMAIN t |-> i % 2]}
StimuliTables ==
    UNION {{[s \in 1..n |-> [Stimuli |-> s, inicio |-> f[s], fin |-> f[s] + 1]] :
               f \in [1..n -> 0..(MaxTableN - 1)]} : n \in 0..MaxStim}
RoiOrders ==
    UNION {{o \in [1..n -> 1..MaxRoi] : \A i, j \in 1..n : o[i] = o[j] => i = j} :
              n \in 0..MaxRoi}
ProcData(t) ==
    [smoothed : TableSignals(t), event_mask : [DOMAIN t -> {DOWN, NONE, UP}]]
ProcessedTables(t) ==
    UNION {{[k \in DOMAIN o |-> [roi |-> o[k],
                                 smoothed |-> f[k].smoothed,
                                 event_mask |-> f[k].event_mask]] :
               f \in [DOMAIN o -> ProcData(t)]} : o \in RoiOrders}

(* The configurations the sidebar returns to main: the default recording   *)
(* or a pair of uploaded files (readable and well formed, with a stimuli   *)
(* table lacking its columns, shorter than the smoothing window, or        *)
(* unreadable), two smoothing windows, two thresholds, two input streams   *)
(* of the detection, and all ROIs or one.                                  *)
UploadedFiles ==
    {[name |-> "upload", readable |-> TRUE, num_timepoints |-> 40, stimuli_columns |-> TRUE],
     [name |-> "no_columns", readable |-> TRUE, num_timepoints |-> 40, stimuli_columns |-> FALSE],
     [name |-> "short", readable |-> TRUE, num_timepoints |-> 6, stimuli_columns |-> TRUE],
     [name |-> "unreadable", readable |-> FALSE, num_timepoints |-> 0, stimuli_columns |-> FALSE]}
DataSources ==
    {[use_default |-> TRUE, files |-> None]}
        \cup {[use_default |-> FALSE, files |-> f] : f \in {None} \cup {Some(u) : u \in UploadedFiles}}
Config(source, sg_window, k_up, detection_signal_source, selected_rois) ==
    [use_default |-> source.use_default, files |-> source.files,
     sg_window |-> sg_window, sg_polyorder |-> SG_POLYORDER,
     tf_filter_type |-> "bandpass", tf_filter_order |-> TF_FILTER_ORDER,
     tf_cutoff_low |-> TF_CUTOFF_LOW_HZ, tf_cutoff_high |-> TF_CUTOFF_HIGH_HZ,
     detection_signal_source |-> detection_signal_source,
     signal_window |-> SIGNAL_WINDOW, k_up |-> k_up, k_down |-> K_DOWN,
     influence |-> INFLUENCE, run_min |-> RUN_MIN, selected_rois |-> selected_rois]
Configs ==
    {Config(source, sg_window, k_up, detection_signal_source, selected_rois) :
        source \in DataSources, sg_window \in {MIN_WINDOW, SG_WINDOW},
        k_up \in {K_UP, MAX_K_FACTOR}, detection_signal_source \in {"sg", "original"},
        selected_rois \in {{}, {"ROI_1"}}}

---------------------------------------------------------------------------
(* The operations as steps: each records the call in op and args, what it *)
(* returned in ret, whether it raised in raised.                           *)

NoCall == [name |-> "none"]

(* processor.robust_event_detection with the arguments p *)
RobustEventDetectionCall(p) ==
    \E r \in {RobustEventDetection(original_signal, smoothed_signal, event_mask, p)} :
        /\ op' = "robust_event_detection"
        /\ args' = p
        /\ ret' = r.ret
        /\ event_mask' = r.event_mask
        /\ locals' = r.locals
        /\ raised' = FALSE
        /\ UNCHANGED <<original_signal, time, smoothed_signal, session_state>>

(* calculate_stimulus_metrics(signal_data, time_array, mask,               *)
(* stimulus_start, stimulus_end, next_stimulus_start); stimulus_end is     *)
(* not read by the function.                                                *)
CalculateStimulusMetricsCall(signal_data, time_array, mask, stimulus_start, next_stimulus_start) ==
    LET r == CalculateStimulusMetrics(signal_data, time_array, mask,
                                      stimulus_start, next_stimulus_start)
        body == MetricsBody(signal_data, time_array, mask,
                            stimulus_start, next_stimulus_start)
    IN  /\ op' = "calculate_stimulus_metrics"
        /\ args' = [signal_data |-> signal_data,
                    time_array |-> time_array,
                    event_mask |-> mask,
                    stimulus_start |-> stimulus_start,
                    next_stimulus_start |-> next_stimulus_start]
        /\ ret' = r.value
        /\ raised' = (r.exc # "none")
        /\ locals' = [caught |-> body.exc]
        /\ UNCHANGED <<original_signal, time, smoothed_signal, event_mask, session_state>>

(* calculate_all_metrics(loader, processed_signals, config) *)
CalculateAllMetricsCall(time_array, stimuli_data, processed_signals) ==
    /\ op' = "calculate_all_metrics"
    /\ args' = [time_array |-> time_array,
                stimuli_data |-> stimuli_data,
                processed_signals |-> processed_signals]
    /\ ret' = CalculateAllMetrics(time_array, stimuli_data, processed_signals)
    /\ raised' = FALSE
    /\ locals' = None
    /\ UNCHANGED <<original_signal, time, smoothed_signal, event_mask, session_state>>

(* apply_butter_filter(signal_data, sampling_rate_hz, filter_type,         *)
(* cutoff_hz, order)                                                        *)
ApplyButterFilterCall(signal_data, sampling_rate_hz, filter_type, cutoff_hz, order) ==
    LET r == ApplyButterFilter(signal_data, sampling_rate_hz, filter_type,
                               cutoff_hz, order)
    IN  /\ op' = "apply_butter_filter"
        /\ args' = [signal_data |-> signal_data,
                    sampling_rate_hz |-> sampling_rate_hz,
                    filter_type |-> filter_type,
                    cutoff_hz |-> cutoff_hz,
                    order |-> order]
        /\ raised' = (r.exc # "none")
        /\ ret' \in IF r.exc # "none" THEN {None}
                    ELSE IF r.value = "unchanged" THEN {signal_data}
                    ELSE FilterOutputs(signal_data)
        /\ locals' = [path |-> r.value]
        /\ UNCHANGED <<original_signal, time, smoothed_signal, event_mask, session_state>>

(* processor.apply_savgol_filter(window, polyorder) *)
ApplySavgolFilterCall(window, polyorder) ==
    LET r == ApplySavgolFilter(original_signal, window, polyorder)
    IN  /\ op' = "apply_savgol_filter"
        /\ args' = [window |-> window, polyorder |-> polyorder]
        /\ raised' = (r.exc # "none")
        /\ IF r.exc # "none"
           THEN ret' = None /\ UNCHANGED smoothed_signal
           ELSE \E y \in FilterOutputs(original_signal) :
                   ret' = y /\ smoothed_signal' = Some(y)
        /\ locals' = None
        /\ UNCHANGED <<original_signal, time, event_mask, session_state>>

(* processor.detect_event_bounds(event_mask=given) *)
DetectEventBoundsCall(given) ==
    LET r == DetectEventBounds(given, event_mask, time)
    IN  /\ op' = "detect_event_bounds"
        /\ args' = [event_mask |-> given]
        /\ raised' = (r.exc # "none")
        /\ ret' = r.value
        /\ locals' = None
        /\ UNCHANGED <<original_signal, time, smoothed_signal, event_mask, session_state>>

---------------------------------------------------------------------------
(* The detector alone: a processor on any trace, one call *)

InitDetect ==
    /\ original_signal \in (DetectTraces \cup DisagreementTraces)
    /\ time = [i \in DOMAIN original_signal |-> i]
    /\ smoothed_signal = None
    /\ event_mask = None
    /\ op = "none"
    /\ args = NoCall
    /\ ret = None
    /\ raised = FALSE
    /\ locals = None
    /\ session_state = NoSession

CallRobustEventDetection ==
    /\ op = "none"
    /\ \E p \in DetectParams : RobustEventDetectionCall(p)

NextDetect == CallRobustEventDetection

SpecDetect == InitDetect /\ [][NextDetect]_vars

(* One rerun of main under the sidebar's config *)
MainCall(config) ==
    \E r \in {MainRun(session_state, config)} :
        /\ op' = "main"
        /\ args' = config
        /\ ret' = None
        /\ raised' = (r.exc # "none")
        /\ locals' = [exc |-> r.exc]
        /\ session_state' = r.session
        /\ UNCHANGED <<original_signal, time, smoothed_signal, event_mask>>

(* The sidebar's reset button: every key of the session is deleted and the *)
(* script is rerun.                                                         *)
ResetCall ==
    /\ op' = "reset"
    /\ args' = NoCall
    /\ ret' = None
    /\ raised' = FALSE
    /\ locals' = None
    /\ session_state' = NoSession
    /\ UNCHANGED <<original_signal, time, smoothed_signal, event_mask>>

(* interpolate_masked_signal(signal_data, keep_mask) *)
InterpolateMaskedSignalCall(signal_data, keep_mask) ==
    \E r \in {InterpolateMaskedSignal(signal_data, keep_mask)} :
        /\ op' = "interpolate_masked_signal"
        /\ args' = [signal_data |-> signal_data, keep_mask |-> keep_mask]
        /\ ret' = r.value
        /\ raised' = FALSE
        /\ locals' = [signal_data |-> r.signal_data, keep_mask |-> r.keep_mask]
        /\ UNCHANGED <<original_signal, time, smoothed_signal, event_mask, session_state>>

(* compute_fft_spectrum(signal_data, sampling_rate_hz, detrend, window) *)
ComputeFftSpectrumCall(signal_data, sampling_rate_hz, detrend, window) ==
    \E r \in {ComputeFftSpectrum(signal_data, sampling_rate_hz)} :
        /\ op' = "compute_fft_spectrum"
        /\ args' = [signal_data |-> signal_data,
                    sampling_rate_hz |-> sampling_rate_hz,
                    detrend |-> detrend, window |-> window]
        /\ raised' = (r.exc # "none")
        /\ IF r.exc # "none"
           THEN ret' = None
           ELSE \E magnitude \in RfftMagnitudes(ALen(signal_data)) :
                   ret' = [freqs |-> r.value, magnitude |-> magnitude]
        /\ locals' = None
        /\ UNCHANGED <<original_signal, time, smoothed_signal, event_mask, session_state>>

---------------------------------------------------------------------------
(* One run of _detect_events_with_params step by step: locals holds the    *)
(* position in the code (pc, and i, the next index of the main pass), the  *)
(* loop state st, the loop state before the last step, and the number of   *)
(* refinement passes made.                                                  *)

(* Traces for the run-merge: a low sample, then any binary sequence, with  *)
(* a window of one sample and run-merge lengths that leave room for a      *)
(* merge at the last indices.                                               *)
MergeTraces ==
    {[i \in 0..(MaxMergeN - 1) |-> IF i = 0 THEN 0 ELSE b[i]] :
        b \in [1..(MaxMergeN - 1) -> 0..1]}
MergeParams ==
    {[w |-> 1, k_up |-> <<1, 2>>, k_down |-> <<1, 2>>, influence |-> inf,
      use_smoothed |-> TRUE, run_min |-> r, pre |-> 1, post |-> 1] :
        inf \in InfluenceSet, r \in (MaxMergeRun - 1)..MaxMergeRun}
RunParams(x) == IF ALen(x) = MaxMergeN THEN MergeParams ELSE DetectParams

InitRun ==
    /\ original_signal \in (DetectTraces \cup MergeTraces)
    /\ time = [i \in DOMAIN original_signal |-> i]
    /\ smoothed_signal = None
    /\ event_mask = None
    /\ op = "none"
    /\ args = NoCall
    /\ ret = None
    /\ raised = FALSE
    /\ locals = None
    /\ session_state = NoSession

(* The call from robust_event_detection, which has returned before it when *)
(* N < 2 * w: with (k_up, k_down) or with (k_down * 2, k_down).            *)
BeginRun ==
    /\ op = "none"
    /\ \E p \in RunParams(original_signal) :
          /\ ALen(original_signal) >= p.w * 2
          /\ \E k_up \in {p.k_up, Twice(p.k_down)} :
                /\ args' = [p EXCEPT !.k_up = k_up]
                /\ locals' = [pc |-> "main", i |-> p.w,
                              st |-> MainInit(original_signal, p),
                              before |-> MainInit(original_signal, p),
                              passes |-> 0]
    /\ op' = "_detect_events_with_params"
    /\ ret' = None
    /\ raised' = FALSE
    /\ UNCHANGED <<original_signal, time, smoothed_signal, event_mask, session_state>>

(* One iteration of "for i in range(w, N)" *)
MainIteration ==
    /\ op = "_detect_events_with_params"
    /\ locals.pc = "main"
    /\ locals.i < ALen(original_signal)
    /\ locals' = [locals EXCEPT
                     !.i = locals.i + 1,
                     !.before = locals.st,
                     !.st = MainStep(original_signal, args, args.k_up, args.k_down,
                                     locals.st, locals.i)]
    /\ UNCHANGED <<original_signal, time, smoothed_signal, event_mask, op, args,
                   ret, raised, session_state>>

(* One pass of "while cambios": the loop ends with the pass that changes   *)
(* nothing.                                                                 *)
RefinementPass ==
    /\ op = "_detect_events_with_params"
    /\ \/ locals.pc = "main" /\ locals.i >= ALen(original_signal)
       \/ locals.pc = "refine"
    /\ \E next \in {RefinePass(original_signal, locals.st.mask, 1)} :
          locals' = [locals EXCEPT
                        !.pc = IF Cambios(original_signal, locals.st.mask)
                               THEN "refine" ELSE "gaps",
                        !.before = locals.st,
                        !.st = [locals.st EXCEPT !.mask = next],
                        !.passes = locals.passes + 1]
    /\ UNCHANGED <<original_signal, time, smoothed_signal, event_mask, op, args,
                   ret, raised, session_state>>

(* "Llenar huecos" and the return *)
GapFilling ==
    /\ op = "_detect_events_with_params"
    /\ locals.pc = "gaps"
    /\ \E filled \in {GapFill(locals.st.mask, args.pre, args.pre, args.post)} :
          /\ locals' = [locals EXCEPT
                           !.pc = "done",
                           !.before = locals.st,
                           !.st = [locals.st EXCEPT !.mask = filled]]
          /\ ret' = filled
    /\ UNCHANGED <<original_signal, time, smoothed_signal, event_mask, op, args,
                   raised, session_state>>

NextRun == BeginRun \/ MainIteration \/ RefinementPass \/ GapFilling

SpecRun == InitRun /\ [][NextRun]_vars

---------------------------------------------------------------------------
(* The post-processing of _detect_events_with_params from any              *)
(* classification: the state when "for i in range(w, N)" has ended, then   *)
(* the refinement passes and the gap-filling.                               *)

(* A trace for the gap-filling, 0 2 0 2 0 1 1 ..: up to eight samples the  *)
(* refinement rule matches at no index of it, so that the gap-filling      *)
(* starts from the classification as given.                                 *)
GapTrace == [i \in 0..(MaxGapN - 1) |-> IF i < PuntosPrevios THEN 2 * (i % 2) ELSE 1]

(* Traces for the refinement: three low samples, then any binary sequence; *)
(* and the trace for the gap-filling.                                       *)
PostTraces ==
    {[i \in 0..(MaxPostN - 1) |-> IF i < 3 THEN 0 ELSE b[i]] :
        b \in [3..(MaxPostN - 1) -> 0..1]}
    \cup {GapTrace}

(* Any labels: on the trace for the gap-filling everywhere, on the others  *)
(* at the samples the refinement rule can read or write (5 <= i <= N-2,    *)
(* and i-1).                                                                *)
PostMasks(x) ==
    IF ALen(x) = MaxGapN
    THEN [0..(ALen(x) - 1) -> {UP, DOWN, NONE}]
    ELSE {[i \in 0..(ALen(x) - 1) |-> IF i \in DOMAIN m THEN m[i] ELSE NONE] :
             m \in [(PuntosPrevios - 1)..(ALen(x) - 2) -> {UP, DOWN, NONE}]}

PostParams ==
    {[w |-> 1, k_up |-> <<1, 2>>, k_down |-> <<1, 2>>, influence |-> <<0, InflDen>>,
      use_smoothed |-> TRUE, run_min |-> 1, pre |-> pre, post |-> post] :
        pre \in 1..MaxPostAdj, post \in 1..MaxPostAdj}

InitPost ==
    /\ original_signal \in PostTraces
    /\ time = [i \in DOMAIN original_signal |-> i]
    /\ smoothed_signal = None
    /\ event_mask = None
    /\ op = "none"
    /\ args = NoCall
    /\ ret = None
    /\ raised = FALSE
    /\ locals = None
    /\ session_state = NoSession

(* The end of the main pass with the classification mask *)
EndOfMainPass ==
    /\ op = "none"
    /\ \E p \in PostParams, mask \in PostMasks(original_signal) :
          /\ args' = p
          /\ \E st \in {[MainInit(original_signal, p) EXCEPT !.mask = mask]} :
                locals' = [pc |-> "main", i |-> ALen(original_signal),
                           st |-> st, before |-> st, passes |-> 0]
    /\ op' = "_detect_events_with_params"
    /\ ret' = None
    /\ raised' = FALSE
    /\ UNCHANGED <<original_signal, time, smoothed_signal, event_mask, session_state>>

NextPost == EndOfMainPass \/ RefinementPass \/ GapFilling

SpecPost == InitPost /\ [][NextPost]_vars

---------------------------------------------------------------------------
(* The module-level functions alone: no processor, one call *)

InitFunction ==
    /\ original_signal = Zeros(0)
    /\ time = Zeros(0)
    /\ smoothed_signal = None
    /\ event_mask = None
    /\ op = "none"
    /\ args = NoCall
    /\ ret = None
    /\ raised = FALSE
    /\ locals = None
    /\ session_state = NoSession

CallCalculateStimulusMetrics ==
    /\ op = "none"
    /\ \E time_array \in TimeAxes, mask \in Masks,
          stimulus_start \in StimulusTimes, next_stimulus_start \in OptionalTimes :
          \E signal_data \in SignalsFor(ALen(time_array)) :
             CalculateStimulusMetricsCall(signal_data, time_array, mask,
                                          stimulus_start, next_stimulus_start)

NextMetrics == CallCalculateStimulusMetrics

SpecMetrics == InitFunction /\ [][NextMetrics]_vars

CallApplyButterFilter ==
    /\ op = "none"
    /\ \E signal_data \in FilterSignals, sampling_rate_hz \in Rates,
          filter_type \in FilterTypes, cutoff_hz \in Cutoffs, order \in 1..MaxOrder :
          ApplyButterFilterCall(signal_data, sampling_rate_hz, filter_type,
                                cutoff_hz, order)

NextFilter == CallApplyButterFilter

SpecFilter == InitFunction /\ [][NextFilter]_vars

CallCalculateAllMetrics ==
    /\ op = "none"
    /\ \E time_array \in TableTimeAxes, stimuli_data \in StimuliTables :
          \E processed_signals \in ProcessedTables(time_array) :
             CalculateAllMetricsCall(time_array, stimuli_data, processed_signals)

NextTable == CallCalculateAllMetrics

SpecTable == InitFunction /\ [][NextTable]_vars

---------------------------------------------------------------------------
(* compute_fft_spectrum on traces of up to MaxFftN samples at a positive   *)
(* sampling rate (the spectral section returns before the call when the    *)
(* estimated rate is not positive).                                        *)
FftTraces == UNION {[0..(n - 1) -> 0..MaxSig] : n \in 0..MaxFftN}

CallComputeFftSpectrum ==
    /\ op = "none"
    /\ \E signal_data \in FftTraces, sampling_rate_hz \in 1..MaxFftRate,
          detrend \in BOOLEAN, window \in {"hann", "none"} :
          ComputeFftSpectrumCall(signal_data, sampling_rate_hz, detrend, window)

NextSpectrum == CallComputeFftSpectrum

SpecSpectrum == InitFunction /\ [][NextSpectrum]_vars

---------------------------------------------------------------------------
(* The dashboard: a browser session, then any sequence of reruns *)

Rerun == \E config \in Configs : MainCall(config)

Reset == op # "none" /\ ResetCall

NextApp == Rerun \/ Reset

SpecApp == InitFunction /\ [][NextApp]_vars

---------------------------------------------------------------------------
(* process_signals on one ROI: which stream the detection runs on *)

(* Loaders with and without a usable time axis, of a trace long enough for *)
(* the filters and of one too short for them                                *)
SourceLoaders ==
    {[Loader("default", n, TRUE) EXCEPT !.sampling_rate_hz = rate] :
        n \in {6, 40}, rate \in {0, 100}}

(* The sidebar's settings that decide the streams: the three sources, the  *)
(* filter types, and an upper cutoff below or at the Nyquist frequency     *)
SourceConfigs ==
    {[Config([use_default |-> TRUE, files |-> None], sg_window, K_UP, source, {})
         EXCEPT !.tf_filter_type = filter_type, !.tf_cutoff_high = high] :
        sg_window \in {MIN_WINDOW, SG_WINDOW},
        source \in {"sg", "butterworth", "original"},
        filter_type \in {"lowpass", "highpass", "bandpass", "bandstop"},
        high \in {TF_CUTOFF_HIGH_HZ, 50}}

(* The body of "for i, roi_name in enumerate(rois_to_process)" *)
RoiPassCall(loader, config, roi_name) ==
    \E r \in {RoiPass(loader, config, roi_name)} :
        /\ op' = "process_signals"
        /\ args' = [loader |-> loader, config |-> config, roi_name |-> roi_name]
        /\ raised' = (r.exc # "none")
        /\ ret' = r.value
        /\ locals' = None
        /\ UNCHANGED <<original_signal, time, smoothed_signal, event_mask, session_state>>

CallRoiPass ==
    /\ op = "none"
    /\ \E loader \in SourceLoaders, config \in SourceConfigs :
          \E roi_name \in RoisToProcess(loader, config) :
              RoiPassCall(loader, config, roi_name)

NextSource == CallRoiPass

SpecSource == InitFunction /\ [][NextSource]_vars

---------------------------------------------------------------------------
(* The detector, then detect_event_bounds on its classification: the mask  *)
(* the processor stored (no argument), the mask the call returned, or that *)
(* mask with an event put at sample 0.                                     *)

BoundsMasks ==
    {None, Some(ret.event_mask)} \cup
    IF ALen(ret.event_mask) > 0
    THEN {Some([ret.event_mask EXCEPT ![0] = v]) : v \in {DOWN, UP}}
    ELSE {}

CallDetectEventBounds ==
    /\ op = "robust_event_detection"
    /\ \E given \in BoundsMasks : DetectEventBoundsCall(given)

NextBounds == CallRobustEventDetection \/ CallDetectEventBounds

SpecBounds == InitDetect /\ [][NextBounds]_vars

---------------------------------------------------------------------------
(* A processor's life: constructed on a trace and its time axis, then any *)
(* sequence of calls.                                                       *)

Init ==
    /\ original_signal \in ProcTraces
    /\ time = [i \in DOMAIN original_signal |-> i]
    /\ smoothed_signal = None
    /\ event_mask = None
    /\ op = "none"
    /\ args = NoCall
    /\ ret = None
    /\ raised = FALSE
    /\ locals = None
    /\ session_state = NoSession

Smooth ==
    \E window \in 0..MaxWindow, polyorder \in 0..MaxPoly :
        ApplySavgolFilterCall(window, polyorder)

Filter ==
    \E sampling_rate_hz \in ProcRates, filter_type \in FilterTypes,
       cutoff_hz \in ProcCutoffs, order \in 1..MaxOrder :
        ApplyButterFilterCall(original_signal, sampling_rate_hz, filter_type,
                              cutoff_hz, order)

Detect == \E p \in ProcParams : RobustEventDetectionCall(p)

Bounds ==
    \E given \in {None} \cup {Some(m) : m \in [DOMAIN time -> {DOWN, NONE, UP}]} :
        DetectEventBoundsCall(given)

Measure ==
    /\ event_mask # None
    /\ \E stimulus_start \in StimulusTimes, next_stimulus_start \in OptionalTimes :
          CalculateStimulusMetricsCall(
              DetectionInput(original_signal, smoothed_signal, TRUE), time,
              event_mask.val, stimulus_start, next_stimulus_start)

Next == Smooth \/ Filter \/ Detect \/ Bounds \/ Measure

Spec == Init /\ [][Next]_vars

---------------------------------------------------------------------------
(* The stages that take the caller's arrays, on one processor: its trace   *)
(* and time axis are the arrays the caller constructed it with.            *)

StageTraces == UNION {[0..(n - 1) -> 0..MaxSig] : n \in 0..MaxStageN}

InitStages ==
    /\ original_signal \in StageTraces
    /\ time = [i \in DOMAIN original_signal |-> i]
    /\ smoothed_signal = None
    /\ event_mask = None
    /\ op = "none"
    /\ args = NoCall
    /\ ret = None
    /\ raised = FALSE
    /\ locals = None
    /\ session_state = NoSession

Interpolate ==
    \E keep_mask \in [DOMAIN original_signal -> BOOLEAN] :
        InterpolateMaskedSignalCall(original_signal, keep_mask)

NextStages == Smooth \/ Detect \/ Bounds \/ Measure \/ Interpolate

SpecStages == InitStages /\ [][NextStages]_vars

---------------------------------------------------------------------------
(* Properties of robust_event_detection *)

Detected == op = "robust_event_detection"
Ran == Detected /\ ALen(original_signal) >= 2 * args.w
LastIdx == ALen(original_signal) - 1

(* C1: whatever the trace and the parameters, the degenerate case N < 2w   *)
(* included, the classification returned has exactly N elements and each   *)
(* of them is -1, 0 or +1.                                                  *)
ClassificationShape ==
    Detected =>
        /\ DOMAIN ret.event_mask = 0..LastIdx
        /\ \A i \in DOMAIN ret.event_mask : ret.event_mask[i] \in {DOWN, NONE, UP}

ClassificationShapeWitness ==
    /\ Ran
    /\ \E i \in DOMAIN ret.event_mask : ret.event_mask[i] = UP
    /\ \E i \in DOMAIN ret.event_mask : ret.event_mask[i] = DOWN

(* C2: on a trace with fewer than 2w samples the call raises nothing and   *)
(* returns three arrays of length N whose elements are all zero.           *)
DegenerateAllZero ==
    (Detected /\ ALen(original_signal) < 2 * args.w) =>
        /\ ~raised
        /\ ret.event_mask = Zeros(ALen(original_signal))
        /\ DOMAIN ret.baseline = 0..LastIdx
        /\ DOMAIN ret.std = 0..LastIdx
        /\ \A i \in 0..LastIdx :
              RealIsZero(ret.baseline[i]) /\ RealIsZero(ret.std[i])

DegenerateWitness ==
    /\ Detected
    /\ ALen(original_signal) < 2 * args.w
    /\ \E i, j \in DOMAIN original_signal : original_signal[i] # original_signal[j]

(* C3: a constant trace with N >= 2w is classified NONE everywhere, and    *)
(* neither detector run has an UP or DOWN sample after its main pass,      *)
(* after its refinement or after its gap-filling.                          *)
IsConstant(x) == \A i, j \in DOMAIN x : x[i] = x[j]
AllNone(mask) == \A i \in DOMAIN mask : mask[i] = NONE
RunAllNone(r) == AllNone(r.main) /\ AllNone(r.refined) /\ AllNone(r.mask)

ConstantTraceAllNone ==
    (Ran /\ IsConstant(original_signal)) =>
        /\ AllNone(ret.event_mask)
        /\ RunAllNone(DetectRun(original_signal, args, args.k_up, args.k_down))
        /\ RunAllNone(DetectRun(original_signal, args, Twice(args.k_down), args.k_down))

ConstantTraceWitness ==
    /\ Ran
    /\ IsConstant(original_signal)
    /\ ALen(original_signal) >= 4
    /\ original_signal[0] # 0
    /\ args.w >= 2

(* x is low for a samples, high for b samples, then low again *)
IsStep(x, a, b) ==
    /\ a >= 1
    /\ b >= 1
    /\ a + b < ALen(x)
    /\ x[a] > x[0]
    /\ \A i \in DOMAIN x : x[i] = IF a <= i /\ i < a + b THEN x[a] ELSE x[0]

Scenario == Detected /\ original_signal = ScenarioTrace /\ args = ScenarioParams

(* C5 as the specification states it: in the scenario an UP sample lies    *)
(* within 3 samples of index 5, a DOWN sample within 3 samples of index    *)
(* 10, and every sample farther than that from both is NONE.               *)
ScenarioAsStated ==
    Scenario =>
        /\ \E i \in 2..8 : ret.event_mask[i] = UP
        /\ \E i \in 7..13 : ret.event_mask[i] = DOWN
        /\ \A i \in DOMAIN ret.event_mask :
              (i \notin 2..8 /\ i \notin 7..13) => ret.event_mask[i] = NONE

(* C5: in the scenario ([0]*5 + [1]*5 + [0]*5, w=5, k_up=k_down=1.0,       *)
(* influence=0.9, run_merge=2) samples 0..3 are NONE, samples 4..7 are UP  *)
(* and samples 8..14, the last two of the plateau and the whole tail, are  *)
(* DOWN.                                                                    *)
ScenarioClassification ==
    Scenario =>
        ret.event_mask =
            [i \in 0..14 |-> IF i < 4 THEN NONE ELSE IF i < 8 THEN UP ELSE DOWN]

ScenarioWitness ==
    /\ Scenario
    /\ ret.event_mask[4] = UP
    /\ ret.event_mask[14] = DOWN

(* C10 as the specification states it: every UP of the first run is UP in  *)
(* the result, every DOWN of the second run is DOWN in the result, and     *)
(* every other sample is NONE.                                              *)
MergeKeepsBothRuns ==
    Ran =>
        \A i \in DOMAIN ret.event_mask :
            /\ locals.mask_up[i] = UP => ret.event_mask[i] = UP
            /\ locals.mask_down[i] = DOWN => ret.event_mask[i] = DOWN
            /\ (locals.mask_up[i] # UP /\ locals.mask_down[i] # DOWN) =>
                  ret.event_mask[i] = NONE

(* C10: a sample is DOWN in the result when the second run (2*k_down,      *)
(* k_down) labels it DOWN; otherwise it is UP when the first run (k_up,    *)
(* k_down) labels it UP; otherwise it is NONE.  A sample that is UP in     *)
(* the first run and DOWN in the second is DOWN.                           *)
MergeDownOverUp ==
    Ran =>
        \A i \in DOMAIN ret.event_mask :
            ret.event_mask[i] =
                IF locals.mask_down[i] = DOWN THEN DOWN
                ELSE IF locals.mask_up[i] = UP THEN UP
                ELSE NONE

MergeOverlapWitness ==
    /\ Ran
    /\ \E i \in DOMAIN ret.event_mask :
          /\ locals.mask_up[i] = UP
          /\ locals.mask_down[i] = DOWN
          /\ ret.event_mask[i] = DOWN

---------------------------------------------------------------------------
(* The two copies of the detector *)

DetectedOn == DetectionInput(original_signal, smoothed_signal, args.use_smoothed)
FirstRun == DetectRun(DetectedOn, args, args.k_up, args.k_down)

(* C23: for every trace and parameter set, with the thresholds of the      *)
(* first run and with those of the second, _detect_events_with_baseline    *)
(* returns the classification _detect_events_with_params returns; and the  *)
(* baseline and deviation arrays robust_event_detection returns are the    *)
(* baseline and deviation of the steps of its first run.                   *)
DetectorCopiesAgree ==
    Ran =>
        /\ \A k \in {args.k_up, Twice(args.k_down)} :
              DetectEventsWithBaseline(DetectedOn, args, k, args.k_down).mask
                  = DetectEventsWithParams(DetectedOn, args, k, args.k_down)
        /\ ret.baseline = FirstRun.baseline
        /\ ret.std = FirstRun.std
        /\ locals.mask_up = FirstRun.mask

(* A run whose classification has both labels and passed through a         *)
(* refinement that moved a label, returned with a baseline that moved      *)
DetectorCopiesAgreeWitness ==
    /\ Ran
    /\ \E i, j \in DOMAIN locals.mask_up : locals.mask_up[i] = UP /\ locals.mask_up[j] = DOWN
    /\ FirstRun.passes >= 2
    /\ \E i \in DOMAIN ret.baseline : ret.baseline[i] # ret.baseline[0]

---------------------------------------------------------------------------
(* The mask the processor keeps *)

(* C25: after any sequence of robust_event_detection calls on one          *)
(* processor, self.event_mask is the merged classification the most recent *)
(* call returned, also when that call was on a trace with N < 2w and       *)
(* returned the all-zero result.                                            *)
StoredMaskIsLastResult == Detected => event_mask = Some(ret.event_mask)

(* A call on a trace with N < 2w that returned zeros and left in           *)
(* self.event_mask the labels of the call before it                        *)
StaleMaskAfterDegenerateWitness ==
    /\ Detected
    /\ ALen(original_signal) < 2 * args.w
    /\ event_mask # None
    /\ \E i \in DOMAIN ret.event_mask : event_mask.val[i] # ret.event_mask[i]

---------------------------------------------------------------------------
(* The merge where the two runs disagree *)

FirstOnly(i, v) == locals.mask_up[i] = v /\ locals.mask_down[i] # v
SecondOnly(i, v) == locals.mask_down[i] = v /\ locals.mask_up[i] # v

(* C26: a sample the first run labels UP and the second run labels DOWN is *)
(* DOWN in the merged classification; a sample that is DOWN only in the    *)
(* first run, or UP only in the second run, is NONE in it.                 *)
MergeDisagreement ==
    Ran =>
        \A i \in DOMAIN ret.event_mask :
            /\ (locals.mask_up[i] = UP /\ locals.mask_down[i] = DOWN)
                  => ret.event_mask[i] = DOWN
            /\ FirstOnly(i, DOWN) => ret.event_mask[i] = NONE
            /\ SecondOnly(i, UP) => ret.event_mask[i] = NONE

(* A call whose first run has a DOWN label the second run does not have *)
MergeDisagreementWitness ==
    /\ Ran
    /\ \E i \in DOMAIN ret.event_mask : FirstOnly(i, DOWN) /\ ret.event_mask[i] = NONE

(* A call whose second run has an UP label the first run does not have *)
MergeSecondOnlyUp ==
    /\ Ran
    /\ \E i \in DOMAIN ret.event_mask : SecondOnly(i, UP) /\ ret.event_mask[i] = NONE

---------------------------------------------------------------------------
(* Properties of the detector run, step by step *)

(* The state after an iteration of the main pass, the index it labelled,   *)
(* and the baseline n / (2u) and variability n / (4du) it read: those      *)
(* recorded for the sample before.                                          *)
Stepped == op = "_detect_events_with_params" /\ locals.pc = "main" /\ locals.i > args.w
StepIdx == locals.i - 1
StepBaseline == locals.before.baseline[StepIdx - 1]
StepStd == locals.before.std[StepIdx - 1]

(* 2u * (x[i] - baseline) *)
StepDiff == BSub(BMul(BMul(StepBaseline.u, original_signal[StepIdx]), 2), StepBaseline.n)
DiffPositive == BLess(BZero, StepDiff)
DiffNegative == BLess(StepDiff, BZero)

(* diff > k * variability and diff < -k * variability, k = k[1] / k[2] *)
DiffAbove(k) == BLess(BMul(StepStd.n, k[1]), BMul(BMul(StepDiff, 2 * k[2]), StepStd.d))
DiffBelow(k) == BLess(BMul(BMul(StepDiff, 2 * k[2]), StepStd.d), BNeg(BMul(StepStd.n, k[1])))
PrevLabel == locals.before.mask[StepIdx - 1]

(* C17: in the main pass sample i is UP iff diff > 0 and (diff >           *)
(* k_up * variability or sample i-1 is UP); otherwise DOWN iff diff < 0    *)
(* and (diff < -k_down * variability or sample i-1 is DOWN); otherwise     *)
(* NONE, with the baseline and variability computed from the buffer after  *)
(* sample i-1.                                                              *)
MainPassRule ==
    Stepped =>
        locals.st.mask[StepIdx] =
            IF DiffPositive /\ (DiffAbove(args.k_up) \/ PrevLabel = UP)
            THEN UP
            ELSE IF DiffNegative /\ (DiffBelow(args.k_down) \/ PrevLabel = DOWN)
                 THEN DOWN
                 ELSE NONE

(* A sample that follows an UP sample and stays UP below the threshold *)
MainPassRuleWitness ==
    /\ Stepped
    /\ PrevLabel = UP
    /\ DiffPositive
    /\ ~DiffAbove(args.k_up)
    /\ locals.st.mask[StepIdx] = UP

(* C18: after every step of the main pass the buffer has w values, the     *)
(* last w - 1 values of the buffer before the step followed by the value   *)
(* appended: influence * x[i] + (1 - influence) * (the last value of the   *)
(* buffer before) when sample i was labelled UP or DOWN, x[i] when it was  *)
(* labelled NONE, whatever the run-merge did to the mask.  The values of   *)
(* a buffer are at the scale of its step, D times the scale before.        *)
BufferRule ==
    Stepped =>
        /\ Len(locals.st.buf) = args.w
        /\ \A j \in 1..(args.w - 1) :
              locals.st.buf[j] = BMul(locals.before.buf[j + 1], args.influence[2])
        /\ locals.st.buf[args.w] =
              IF locals.st.mask[StepIdx] = NONE
              THEN BMul(locals.st.unit, original_signal[StepIdx])
              ELSE BAdd(BMul(BMul(locals.before.unit, original_signal[StepIdx]),
                             args.influence[1]),
                        BMul(locals.before.buf[args.w],
                             args.influence[2] - args.influence[1]))

(* A step whose run-merge changed an earlier sample and that appended a    *)
(* proper mixture                                                           *)
BufferRuleWitness ==
    /\ Stepped
    /\ \E j \in 0..(StepIdx - 1) : locals.st.mask[j] # locals.before.mask[j]
    /\ locals.st.mask[StepIdx] # NONE
    /\ args.influence[1] > 0
    /\ args.influence[1] < args.influence[2]
    /\ locals.st.buf[args.w] # BMul(locals.st.unit, original_signal[StepIdx])

(* The r samples before sample i, and the r - 1 of them the code counts *)
Preceding == (StepIdx - args.run_min)..(StepIdx - 1)
Counted == (StepIdx - args.run_min)..(StepIdx - 2)
LabelledIn(S, v) == Cardinality({j \in S : locals.before.mask[j] = v})
MergeDue(v) ==
    /\ StepIdx > args.w + args.run_min
    /\ locals.st.mask[StepIdx] = v
    /\ 10 * LabelledIn(Counted, v) > 8 * args.run_min

Refined == op = "_detect_events_with_params" /\ locals.pc = "gaps"
RunLen == ALen(original_signal)
BeforeIdx(i) == {j \in 0..(i - 1) : j >= i - PuntosPrevios}
NotAbove(i) == Cardinality({j \in BeforeIdx(i) : original_signal[j] <= original_signal[i]})
NotBelow(i) == Cardinality({j \in BeforeIdx(i) : original_signal[j] >= original_signal[i]})
FixedAt(i) ==
    /\ (locals.st.mask[i] = UP /\ 10 * NotAbove(i) >= 8 * PuntosPrevios)
          => locals.st.mask[i - 1] = UP
    /\ (locals.st.mask[i] = DOWN /\ 10 * NotBelow(i) >= 8 * PuntosPrevios)
          => locals.st.mask[i - 1] = DOWN

(* The statement as the specification has it: a fixed point at every       *)
(* interior index.                                                          *)
RefinementFixedAtInterior == Refined => \A i \in 1..(RunLen - 2) : FixedAt(i)

(* C20: when the refinement loop ends, the classification is a fixed point *)
(* of the refinement rule at every index i with 5 <= i <= N-2, the indices *)
(* that have five samples before them.                                      *)
RefinementFixedPoint == Refined => \A i \in PuntosPrevios..(RunLen - 2) : FixedAt(i)

(* A refinement of more than one pass that ended with a forced onset *)
RefinementFixedPointWitness ==
    /\ Refined
    /\ locals.passes >= 2
    /\ \E i \in PuntosPrevios..(RunLen - 2) :
          /\ locals.st.mask[i] = UP
          /\ 10 * NotAbove(i) >= 8 * PuntosPrevios
          /\ locals.st.mask[i - 1] = UP

---------------------------------------------------------------------------
(* Termination of the refinement loop *)

InRun == op = "_detect_events_with_params"
Passes == locals.passes

(* C21: the refinement loop ends for every trace and every classification  *)
(* it starts from: while it runs it has made fewer than N passes, and the  *)
(* pass that changes nothing is at most the N-th.                          *)
RefinementTerminates ==
    InRun =>
        /\ locals.pc = "refine" => Passes < RunLen
        /\ locals.pc \in {"gaps", "done"} => Passes <= RunLen

(* A loop that ended with its third pass: two passes moved labels, the    *)
(* third changed nothing                                                    *)
RefinementTerminatesWitness ==
    /\ InRun
    /\ locals.pc = "gaps"
    /\ Passes = 3
    /\ locals.st.mask[PuntosPrevios - 1] # NONE

---------------------------------------------------------------------------
(* The gap-filling *)

GapsFilled == InRun /\ locals.pc = "done"
Unfilled == locals.before.mask
Filled == locals.st.mask
Before(i) == (i - args.pre)..(i - 1)
After(i) == (i + 1)..(i + args.post)
Both(mask, i, v) == (\E j \in Before(i) : mask[j] = v) /\ (\E j \in After(i) : mask[j] = v)

(* The statement for the indices with a full window on both sides, the     *)
(* windows read in the classification before the gap-filling.              *)
GapFillingFullWindows ==
    GapsFilled =>
        \A i \in args.pre..(RunLen - 1 - args.post) :
            Unfilled[i] = NONE =>
                /\ Both(Unfilled, i, UP) => Filled[i] = UP
                /\ (~Both(Unfilled, i, UP) /\ Both(Unfilled, i, DOWN)) => Filled[i] = DOWN

(* The windows as the loop reads them at index i: the samples before i as *)
(* the gap-filling has left them, the samples after i as they were.        *)
BothAtVisit(i, v) ==
    (\E j \in Before(i) : Filled[j] = v) /\ (\E j \in After(i) : Unfilled[j] = v)
GapRange == args.pre..(RunLen - 2 - args.post)

(* C22: every index i with adjacent_pre <= i <= N-2-adjacent_post that is  *)
(* NONE before the gap-filling becomes UP when there is an UP sample among *)
(* the adjacent_pre samples before it and among the adjacent_post samples  *)
(* after it, the windows being read when the loop reaches i, after it has  *)
(* filled the lower indices; otherwise DOWN under the same condition for   *)
(* DOWN; otherwise it stays NONE.  In particular it becomes UP when both   *)
(* windows held an UP sample before the gap-filling.  No other sample is   *)
(* changed.                                                                 *)
GapFillingRule ==
    GapsFilled =>
        /\ \A i \in GapRange :
              Unfilled[i] = NONE =>
                  /\ BothAtVisit(i, UP) => Filled[i] = UP
                  /\ (~BothAtVisit(i, UP) /\ BothAtVisit(i, DOWN)) => Filled[i] = DOWN
                  /\ (~BothAtVisit(i, UP) /\ ~BothAtVisit(i, DOWN)) => Filled[i] = NONE
                  /\ Both(Unfilled, i, UP) => Filled[i] = UP
        /\ \A i \in DOMAIN Unfilled :
              (i \notin GapRange \/ Unfilled[i] # NONE) => Filled[i] = Unfilled[i]

(* A gap between DOWN samples, with no UP sample in the window before it   *)
(* when the gap-filling began, that was filled UP after the sample before  *)
(* it                                                                       *)
GapFillingRuleWitness ==
    /\ GapsFilled
    /\ \E i \in GapRange :
          /\ Unfilled[i] = NONE
          /\ Both(Unfilled, i, DOWN)
          /\ ~Both(Unfilled, i, UP)
          /\ Filled[i] = UP

---------------------------------------------------------------------------
(* Properties of calculate_stimulus_metrics *)

Measured == op = "calculate_stimulus_metrics"

(* The window end the call used *)
EffectiveEnd ==
    IF args.next_stimulus_start # None
    THEN args.next_stimulus_start.val
    ELSE args.time_array[ALen(args.time_array) - 1]

(* Signal, time axis and mask have one length, at least 1, and no sample   *)
(* of the window [stimulus_start, effective_end] is UP or DOWN.            *)
NoEventInWindow ==
    /\ Measured
    /\ ALen(args.time_array) >= 1
    /\ ALen(args.signal_data) = ALen(args.time_array)
    /\ ALen(args.event_mask) = ALen(args.time_array)
    /\ \A i \in TimeRange(args.time_array, args.stimulus_start, EffectiveEnd) :
          args.event_mask[i] = NONE

MetricsNeverRaise ==
    Measured =>
        /\ ~raised
        /\ \/ ret = None
           \/ DOMAIN ret = {"start_time", "end_time", "duration", "area_total",
                            "area_1min", "max_value", "signal_corrected",
                            "time_corrected"}

(* A mask longer than the time axis: the exception raised inside is caught *)
MetricsCaughtWitness ==
    /\ Measured
    /\ ALen(args.event_mask) > ALen(args.time_array)
    /\ ALen(args.time_array) > 1
    /\ locals.caught = "ValueError"
    /\ ret = None
    /\ ~raised

(* Signal, time axis and mask of one length, at least 1 *)
SameLengths ==
    /\ Measured
    /\ ALen(args.time_array) >= 1
    /\ ALen(args.signal_data) = ALen(args.time_array)
    /\ ALen(args.event_mask) = ALen(args.time_array)

(* The samples at or after stimulus_start, and those of them that are UP   *)
(* and in the window                                                        *)
FromStart == {i \in DOMAIN args.time_array : args.time_array[i] >= args.stimulus_start}
UpInWindow ==
    {i \in TimeRange(args.time_array, args.stimulus_start, EffectiveEnd) :
        args.event_mask[i] = UP}
ResolvedOnset == IF UpInWindow # {} THEN SetMin(UpInWindow) ELSE SetMin(FromStart)

(* The samples at or before the window end, and those of them that are     *)
(* DOWN and strictly after the onset                                        *)
UntilEnd == {i \in DOMAIN args.time_array : args.time_array[i] <= EffectiveEnd}
DownAfterOnset ==
    {i \in UntilEnd : /\ args.time_array[i] > args.time_array[ResolvedOnset]
                      /\ args.event_mask[i] = DOWN}
ResolvedEnd == IF DownAfterOnset # {} THEN SetMax(DownAfterOnset) ELSE SetMax(UntilEnd)

SegmentLen == ALen(ret.time_corrected)
FirstStep == args.time_array[1] - args.time_array[0]
CorrectedNum == [j \in DOMAIN ret.signal_corrected |-> ret.signal_corrected[j].n]
AreaOfFirst(k) == [n |-> Trapezoid2(CorrectedNum, ret.time_corrected, k), d |-> ret.area_total.d]

(* Twice the median of the time steps of the axis *)
Steps == [i \in 1..(ALen(args.time_array) - 1) |-> args.time_array[i] - args.time_array[i - 1]]
SortedSteps == SortSeq(Steps, LAMBDA a, b : a < b)
MedianStep2 == SortedSteps[(Len(Steps) + 1) \div 2] + SortedSteps[(Len(Steps) \div 2) + 1]
StrictlyIncreasing == \A i \in 1..(ALen(args.time_array) - 1) : args.time_array[i - 1] < args.time_array[i]

(* The statement as the specification has it: k is the number of samples   *)
(* in one minute by the median time step of a strictly increasing axis.    *)
AreaFirstMinuteByMedianStep ==
    (Measured /\ ret # None /\ ALen(args.time_array) >= 2 /\ StrictlyIncreasing) =>
        IF SegmentLen > (2 * TicksPerMinute) \div MedianStep2
        THEN ret.area_1min = AreaOfFirst((2 * TicksPerMinute) \div MedianStep2)
        ELSE ret.area_1min = ret.area_total

(* C16: on a non-decreasing time axis, k is the number of samples in one   *)
(* minute by the first time step of the axis, int(1 / (t[1] - t[0]));      *)
(* area_1min is the trapezoidal integral over the first k samples of the   *)
(* corrected segment when the segment has more than k samples, and         *)
(* area_total when it has no more than k samples or the first step is 0.   *)
AreaFirstMinute ==
    (Measured /\ ret # None /\ ALen(args.time_array) >= 2) =>
        IF FirstStep > 0 /\ SegmentLen > TicksPerMinute \div FirstStep
        THEN ret.area_1min = AreaOfFirst(TicksPerMinute \div FirstStep)
        ELSE ret.area_1min = ret.area_total

(* A segment longer than one minute's samples whose first minute holds     *)
(* less than its whole area                                                *)
AreaFirstMinuteWitness ==
    /\ Measured
    /\ ret # None
    /\ FirstStep > 0
    /\ SegmentLen > TicksPerMinute \div FirstStep
    /\ TicksPerMinute \div FirstStep >= 2
    /\ ret.area_1min.n > 0
    /\ ret.area_1min.n < ret.area_total.n

(* The row the caller appends for the outcome of this call *)
CallerRow == RowsOf(0, 0, IF raised THEN Raise("Exception") ELSE Return(ret))[1]
CorrectedLast == ret.signal_corrected[ALen(ret.signal_corrected) - 1]

(* C27: on a strictly increasing time axis every record returned by        *)
(* calculate_stimulus_metrics has stimulus_start <= start_time < end_time  *)
(* <= effective_end, duration = end_time - start_time > 0 and max_value    *)
(* >= 0, the corrected segment being zero at its first and last sample;    *)
(* so the caller's row has duration 0 exactly when it is the placeholder   *)
(* row.                                                                     *)
MetricRecordOrdered ==
    (Measured /\ StrictlyIncreasing) =>
        /\ ret # None =>
               /\ args.stimulus_start <= ret.start_time
               /\ ret.start_time < ret.end_time
               /\ ret.end_time <= EffectiveEnd
               /\ ret.duration = ret.end_time - ret.start_time
               /\ ret.duration > 0
               /\ ret.max_value.d > 0
               /\ ret.max_value.n >= 0
               /\ ret.signal_corrected[0].n = 0
               /\ CorrectedLast.n = 0
        /\ (CallerRow.duration = 0) <=> (CallerRow = PlaceholderRow(0, 0))
        /\ (CallerRow = PlaceholderRow(0, 0)) <=> (ret = None)

(* A record whose segment starts after the stimulus start, ends at the     *)
(* window end and rises above its local baseline                           *)
MetricRecordOrderedWitness ==
    /\ Measured
    /\ StrictlyIncreasing
    /\ ret # None
    /\ args.stimulus_start < ret.start_time
    /\ ret.end_time = EffectiveEnd
    /\ ret.max_value.n > 0
    /\ CallerRow.duration = ret.duration

---------------------------------------------------------------------------
(* Properties of calculate_all_metrics *)

Tabulated == op = "calculate_all_metrics"

(* What calculate_stimulus_metrics returns for entry r and stimulus s *)
ExtractorValue(r, s) ==
    CalculateStimulusMetrics(
        args.processed_signals[r].smoothed, args.time_array,
        args.processed_signals[r].event_mask, args.stimuli_data[s].inicio,
        IF s < Len(args.stimuli_data)
        THEN Some(args.stimuli_data[s + 1].inicio) ELSE None).value

---------------------------------------------------------------------------
(* Properties of the stages' effects on their inputs *)

(* C14: no call of apply_savgol_filter, robust_event_detection,            *)
(* calculate_stimulus_metrics, detect_event_bounds or                      *)
(* interpolate_masked_signal changes the trace or the time axis; the       *)
(* detection leaves the smoothed signal as it was, the two readers of the  *)
(* event mask leave the mask as it was, and the interpolation leaves both  *)
(* of its arguments with the values they were passed with.                 *)
InputsUnmodified ==
    [][/\ original_signal' = original_signal
       /\ time' = time
       /\ (op' = "robust_event_detection" => smoothed_signal' = smoothed_signal)
       /\ (op' \in {"detect_event_bounds", "calculate_stimulus_metrics"} =>
              event_mask' = event_mask)
       /\ (op' = "interpolate_masked_signal" =>
              /\ DOMAIN locals'.signal_data = DOMAIN args'.signal_data
              /\ \A i \in DOMAIN args'.signal_data :
                    RealEq(locals'.signal_data[i], Real(args'.signal_data[i], 1))
              /\ locals'.keep_mask = args'.keep_mask)]_vars

(* An interpolation that replaced a sample by another value *)
InputsUnmodifiedWitness ==
    /\ op = "interpolate_masked_signal"
    /\ \E i \in DOMAIN ret : ~RealEq(ret[i], Real(args.signal_data[i], 1))
    /\ \A i \in DOMAIN ret : RealEq(locals.signal_data[i], Real(original_signal[i], 1))
    /\ smoothed_signal # None
    /\ event_mask # None

---------------------------------------------------------------------------
(* Properties of compute_fft_spectrum *)

Transformed == op = "compute_fft_spectrum" /\ ~raised
FftN == ALen(args.signal_data)
LastBin == ret.freqs[SetMax(DOMAIN ret.freqs)]
Nyquist == Real(args.sampling_rate_hz, 2)
RealLess(a, b) == a.n * b.d < b.n * a.d

(* The bins start at 0 and are sampling_rate / N apart, and the magnitude  *)
(* array has one entry per bin.                                            *)
BinsFromZeroEvenlySpaced ==
    /\ DOMAIN ret.freqs = 0..SetMax(DOMAIN ret.freqs)
    /\ RealEq(ret.freqs[0], Real(0, 1))
    /\ \A k \in DOMAIN ret.freqs :
          k > 0 => RealEq(Real(ret.freqs[k].n - ret.freqs[k - 1].n, ret.freqs[k].d),
                          Real(args.sampling_rate_hz, FftN))
    /\ DOMAIN ret.magnitude = DOMAIN ret.freqs

(* The statement as the specification has it: for every N >= 1 the last    *)
(* bin is the Nyquist frequency.                                           *)
SpectrumEndsAtNyquist ==
    (Transformed /\ FftN >= 1) =>
        /\ BinsFromZeroEvenlySpaced
        /\ RealEq(LastBin, Nyquist)

(* C15: for every N >= 1 compute_fft_spectrum returns floor(N/2) + 1 bins  *)
(* that start at 0 and are sampling_rate / N apart, with one magnitude per *)
(* bin; the last bin is the Nyquist frequency when N is even and lies      *)
(* below it, at (N-1)/(2N) of the sampling rate, when N is odd.            *)
SpectrumBins ==
    (Transformed /\ FftN >= 1) =>
        /\ BinsFromZeroEvenlySpaced
        /\ Cardinality(DOMAIN ret.freqs) = (FftN \div 2) + 1
        /\ (FftN % 2 = 0 => RealEq(LastBin, Nyquist))
        /\ (FftN % 2 = 1 =>
               /\ RealEq(LastBin, Real((FftN - 1) * args.sampling_rate_hz, 2 * FftN))
               /\ RealLess(LastBin, Nyquist))

(* An odd number of samples with three bins, the last below Nyquist *)
SpectrumBinsWitness ==
    /\ Transformed
    /\ FftN = MaxFftN
    /\ FftN % 2 = 1
    /\ Cardinality(DOMAIN ret.freqs) = 3
    /\ RealLess(LastBin, Nyquist)

---------------------------------------------------------------------------
(* Properties of the dashboard's main loop *)

Completed == op = "main" /\ ~raised

(* C13: whenever data is loaded and a rerun completes, the processed       *)
(* signals and the metric table in the session are the ones computed from  *)
(* the loaded data with the configuration of that rerun.                   *)
RecomputedOnChange ==
    (Completed /\ session_state.data_loaded) =>
        /\ ProcessSignals(session_state.data_loader.val, args).exc = "none"
        /\ session_state.processed_signals =
               Some(ProcessSignals(session_state.data_loader.val, args).value)
        /\ session_state.results_df =
               Some(AllMetrics(session_state.data_loader.val,
                               ProcessSignals(session_state.data_loader.val, args).value).value)

(* A completed rerun that shows signals processed under another            *)
(* configuration and has no metric table.                                  *)
StaleAfterAbortWitness ==
    /\ Completed
    /\ session_state.data_loaded
    /\ session_state.processed_signals # None
    /\ ProcessSignals(session_state.data_loader.val, args).exc = "none"
    /\ session_state.processed_signals #
           Some(ProcessSignals(session_state.data_loader.val, args).value)
    /\ session_state.results_df = None

Reran == op = "main"
SourceAvailable == args.use_default \/ args.files # None
SelectedData == LoadData(args.use_default, args.files)

(* C30: after a rerun with a data source available whose loading          *)
(* succeeds, the session's loader is the one of the selected source.       *)
LoadedDataIsSelectedSource ==
    (Reran /\ SourceAvailable /\ SelectedData # None) =>
        /\ session_state.data_loaded
        /\ session_state.data_loader = SelectedData

(* Uploaded files replaced by other uploaded files: the rerun completes    *)
(* with the data, the processed signals and the metric table of the files  *)
(* uploaded before.                                                         *)
StaleUploadWitness ==
    /\ Reran
    /\ ~raised
    /\ ~args.use_default
    /\ args.files # None
    /\ SelectedData # None
    /\ session_state.data_loaded
    /\ session_state.data_loader # SelectedData
    /\ session_state.data_loader.val.name # "default"
    /\ session_state.processed_signals # None
    /\ session_state.results_df # None
    /\ session_state.last_config = Some(args)

---------------------------------------------------------------------------
(* The detector's input *)

Processed == op = "process_signals" /\ ~raised
Source == args.config.detection_signal_source
RawTrace == [stage |-> "original", roi |-> <<args.loader.name, args.roi_name>>]
SavgolOutput ==
    [stage |-> "savgol", of |-> RawTrace,
     window |-> IF args.config.sg_window % 2 = 0 THEN args.config.sg_window + 1
                ELSE args.config.sg_window,
     polyorder |-> args.config.sg_polyorder]
FilterBypassed ==
    \/ 2 * args.config.tf_cutoff_high >= args.loader.sampling_rate_hz
          /\ args.config.tf_filter_type # "highpass"
    \/ 2 * args.config.tf_cutoff_low >= args.loader.sampling_rate_hz
          /\ args.config.tf_filter_type = "highpass"
FilterOf(input) ==
    [stage |-> "butterworth", of |-> input,
     filter_type |-> args.config.tf_filter_type, order |-> args.config.tf_filter_order,
     cutoff |-> ConfigCutoff(args.config)]

(* The statement with the filter fed by the smoothed trace *)
DetectorInputFilteredFromSmoothed ==
    Processed =>
        /\ Source = "sg" => ret.detected_on = SavgolOutput
        /\ Source = "original" => ret.detected_on = RawTrace
        /\ Source = "butterworth" => ret.detected_on = FilterOf(SavgolOutput)

(* C24: with source 'sg' the detector runs on the Savitzky-Golay output,   *)
(* with source 'original' on the raw trace, and with source 'butterworth'  *)
(* on the output of apply_butter_filter applied to the raw trace: the      *)
(* filtered raw trace, or the raw trace itself when the filter returns its *)
(* input because a cutoff is at or above the Nyquist frequency; when no    *)
(* filter output exists (sampling rate not positive) it runs on the        *)
(* Savitzky-Golay output.                                                   *)
DetectorInput ==
    Processed =>
        /\ Source = "sg" => ret.detected_on = SavgolOutput
        /\ Source = "original" => ret.detected_on = RawTrace
        /\ Source = "butterworth" =>
              ret.detected_on =
                  IF args.loader.sampling_rate_hz <= 0 THEN SavgolOutput
                  ELSE IF FilterBypassed THEN RawTrace
                  ELSE FilterOf(RawTrace)

(* A pass with source 'butterworth' whose detection ran on a filtered      *)
(* trace                                                                    *)
DetectorInputWitness ==
    /\ Processed
    /\ Source = "butterworth"
    /\ ret.detected_on.stage = "butterworth"
    /\ ret.tf_filtered # None
    /\ ret.smoothed.stage = "savgol"

---------------------------------------------------------------------------
(* Properties of apply_butter_filter *)

Filtered == op = "apply_butter_filter"

(* The cutoffs of the call are numbers, one or two of them *)
NumericCutoff ==
    IF args.cutoff_hz.kind = "tuple"
    THEN /\ Len(args.cutoff_hz.values) = 2
         /\ \A i \in 1..2 : args.cutoff_hz.values[i] # None
    ELSE args.cutoff_hz.value # None

CutoffValues ==
    IF args.cutoff_hz.kind = "tuple"
    THEN {args.cutoff_hz.values[i].val : i \in 1..2}
    ELSE {args.cutoff_hz.value.val}

(* Sampling rate <= 0, or a cutoff <= 0 or >= half the sampling rate, or   *)
(* a band whose low cutoff is >= its high cutoff                            *)
InvalidFilterParameters ==
    \/ args.sampling_rate_hz <= 0
    \/ /\ NumericCutoff
       /\ \E c \in CutoffValues : c <= 0 \/ 2 * c >= args.sampling_rate_hz
    \/ /\ NumericCutoff
       /\ args.cutoff_hz.kind = "tuple"
       /\ args.cutoff_hz.values[1].val >= args.cutoff_hz.values[2].val

(* C9: with a sampling rate <= 0, a cutoff <= 0 or >= Nyquist, or a low    *)
(* cutoff >= the high cutoff, apply_butter_filter raises nothing and       *)
(* returns the input samples unchanged.                                    *)
ButterNoOp ==
    (Filtered /\ InvalidFilterParameters) =>
        /\ ~raised
        /\ ret = args.signal_data

(* An inverted band inside (0, Nyquist) on a signal with samples *)
ButterNoOpWitness ==
    /\ Filtered
    /\ args.filter_type = "bandpass"
    /\ args.sampling_rate_hz > 0
    /\ NumericCutoff
    /\ args.cutoff_hz.kind = "tuple"
    /\ \A c \in CutoffValues : c > 0 /\ 2 * c < args.sampling_rate_hz
    /\ args.cutoff_hz.values[1].val > args.cutoff_hz.values[2].val
    /\ ALen(args.signal_data) = 2
    /\ args.signal_data[0] # args.signal_data[1]
    /\ ret = args.signal_data
    /\ ~raised

---------------------------------------------------------------------------
(* Properties of the operations together *)

RaisingCall ==
    \/ /\ op = "apply_savgol_filter"
       /\ \/ args.polyorder >= OddWindow(args.window)
          \/ OddWindow(args.window) > ALen(original_signal)
    \/ /\ op = "detect_event_bounds"
       /\ args.event_mask = None
       /\ event_mask = None
    \/ /\ op = "apply_butter_filter"
       /\ args.filter_type # "none"
       /\ ~InvalidFilterParameters
       /\ NumericCutoff
       /\ \/ (args.filter_type \in {"lowpass", "highpass"})
                 = (args.cutoff_hz.kind = "tuple")
          \/ ALen(args.signal_data) <= PadLen(args.filter_type, args.order)

---------------------------------------------------------------------------
(* Properties of the post-processing as a whole *)

MainPassEnded == InRun /\ locals.pc = "main" /\ locals.i >= RunLen
PostProcessed == InRun /\ locals.pc \in {"refine", "gaps", "done"}
Labelled(mask) == {i \in DOMAIN mask : mask[i] # NONE}
FinalOfRun == AfterMainPass(original_signal, args, locals.st).mask
Flipped(from, to) == \E i \in DOMAIN Filled : Unfilled[i] = from /\ Filled[i] = to

(* C29: a refinement pass and the gap-filling leave every UP or DOWN       *)
(* sample UP or DOWN, the gap-filling changes only samples that were NONE, *)
(* and every sample that is UP or DOWN when the main pass ends is UP or    *)
(* DOWN in the classification the run returns.                             *)
LabelsNeverRemoved ==
    /\ PostProcessed => Labelled(Unfilled) \subseteq Labelled(Filled)
    /\ GapsFilled => \A i \in Labelled(Unfilled) : Filled[i] = Unfilled[i]
    /\ MainPassEnded => Labelled(locals.st.mask) \subseteq Labelled(FinalOfRun)

(* A refinement pass that has turned an UP sample into DOWN and a NONE     *)
(* sample into an event sample                                              *)
LabelsNeverRemovedWitness ==
    /\ PostProcessed
    /\ locals.pc # "done"
    /\ Flipped(UP, DOWN)
    /\ Labelled(Filled) # Labelled(Unfilled)

(* The end of a main pass whose classification the post-processing extends *)
LabelsAddedWitness ==
    /\ MainPassEnded
    /\ Labelled(locals.st.mask) # {}
    /\ Labelled(FinalOfRun) # Labelled(locals.st.mask)

---------------------------------------------------------------------------
(* Properties of detect_event_bounds on the detector's classifications *)

Bounded == op = "detect_event_bounds" /\ ~raised
Classified == IF args.event_mask # None THEN args.event_mask.val ELSE event_mask.val
FromDetector ==
    \/ args.event_mask = None
    \/ event_mask # None /\ args.event_mask.val = event_mask.val
    \/ \A i \in DOMAIN args.event_mask.val : args.event_mask.val[i] = NONE
Paired(starts, ends) ==
    /\ Len(starts) = Len(ends)
    /\ \A k \in 1..Len(starts) :
          /\ starts[k] <= ends[k]
          /\ k < Len(starts) => ends[k] < starts[k + 1]
ActiveAtZero(v) ==
    /\ Classified[0] = v
    /\ \E i \in DOMAIN Classified : Classified[i] # v

(* C28: on a classification of robust_event_detection, detect_event_bounds *)
(* returns as many up_start as up_end entries and as many down_start as    *)
(* down_end entries, the k-th start <= the k-th end < the (k+1)-th start;  *)
(* sample 0 of such a classification is NONE, and on a mask whose sample 0 *)
(* is in an event that stops before the last sample that event gets an end *)
(* and no start.                                                            *)
BoundsPaired ==
    Bounded =>
        /\ FromDetector =>
               /\ Paired(ret.up_start, ret.up_end)
               /\ Paired(ret.down_start, ret.down_end)
               /\ ALen(Classified) > 0 => Classified[0] = NONE
        /\ (~FromDetector /\ ActiveAtZero(UP)) =>
               Len(ret.up_end) = Len(ret.up_start) + 1
        /\ (~FromDetector /\ ActiveAtZero(DOWN)) =>
               Len(ret.down_end) = Len(ret.down_start) + 1

(* The stored classification has an UP event closed inside the trace and a *)
(* DOWN event that lasts to the last sample                                 *)
BoundsPairedWitness ==
    /\ Bounded
    /\ args.event_mask = None
    /\ Len(ret.up_start) >= 1
    /\ ret.up_end[1] < LastIdx
    /\ Len(ret.down_start) >= 1
    /\ ret.down_end[Len(ret.down_end)] = LastIdx

============================================================================
